---------------------------- MODULE Spec2Model ----------------------------
(***************************************************************************)
(* polybot: the risk-gated position engine.                                *)
(*                                                                         *)
(* Money and prices are fixed-point integers.  One model unit is 1/Micro   *)
(* of the sixth decimal place, so that round(x, 6), which the persistence  *)
(* layer applies to every stored number, is a real conversion (Round6)     *)
(* and not the identity.  Values the code computes with floats and does    *)
(* not round (the weighted average before it is stored, the realized P&L   *)
(* it returns) are exact rationals [n |-> numerator, d |-> denominator].   *)
(***************************************************************************)
EXTENDS Integers, Sequences, FiniteSets

VARIABLES
    positions,   \* the positions table: a set of rows
    ghost,       \* per asset: the BUY fills applied since it had no row
    nfills,      \* number of update_after_trade calls made
    last,        \* the last call: its arguments, result and pre-state
    trades,      \* the trades table: an append-only sequence of rows
    now,         \* the wall clock (UTC), in model time units
    halted,      \* RiskManager._halted
    halted_at,   \* RiskManager._halted_at
    cb_enabled,  \* RiskManager.cb_enabled (circuit_breaker.enabled)
    capital,     \* BacktestEngine.run: capital
    bt_positions,\* BacktestEngine.run: positions, asset_id -> _Position
    bt_trades,   \* BacktestEngine.run: trades
    equity_curve,\* BacktestEngine.run: equity_curve
    last_prices, \* BacktestEngine.run: last_prices
    nticks,      \* ticks the run loop has taken from its list
    nprocessed,  \* of those, the ticks that had a price and an asset_id
    bt_state,    \* "running", or "raised" once an exception has left run
    initial_capital, \* BacktestEngine._initial_capital
    history_buffers, \* BacktestEngine.run: history_buffers
    tape,        \* the caller of run: the ticks handed to the first call
    first,       \* the caller of run: what the first call returned
    run_no,      \* the caller of run: 1 in the first call, 2 in the second
    price_history, \* the price_history table: rows in the order of insertion
    inbox,       \* the messages WebSocketClient.listen has received
    tasks,       \* the calls of on_message that have not returned
    calls,       \* the log of the handler invocations of PriceMonitor
    alert_log,   \* the alert_log table: rows in the order of insertion
    notifications, \* the calls of NotificationManager.send_alert
    websocket,   \* WebSocketClient.websocket: None, or a connection
    is_running,  \* WebSocketClient.is_running
    reconnect_count, \* WebSocketClient.reconnect_count
    subscribed_assets, \* WebSocketClient._subscribed_assets
    attempts,    \* reconnect attempts since the last successful connect
    wanted,      \* the assets the caller has subscribed and not unsubscribed
    nconnects,   \* successful connects so far
    max_total_position_usdc \* RiskManager.max_total_position_usdc

\* the receive loop and the price monitor
monvars == <<inbox, tasks, calls>>

alertvars == <<alert_log, notifications>>

wsvars == <<websocket, is_running, reconnect_count, subscribed_assets,
            attempts, wanted, nconnects>>

\* what the caller of run keeps between two calls
callervars == <<tape, first, run_no>>

btvars == <<capital, bt_positions, bt_trades, equity_curve, last_prices,
            nticks, nprocessed, bt_state, initial_capital, history_buffers,
            callervars, price_history, monvars, alertvars, wsvars,
            max_total_position_usdc>>

vars == <<positions, ghost, nfills, last, trades, now, halted, halted_at,
          cb_enabled, capital, bt_positions, bt_trades, equity_curve,
          last_prices, nticks, nprocessed, bt_state, initial_capital,
          history_buffers, tape, first, run_no, price_history, inbox,
          tasks, calls, alert_log, notifications, websocket, is_running,
          reconnect_count, subscribed_assets, attempts, wanted, nconnects,
          max_total_position_usdc>>

---------------------------------------------------------------------------
(* Bounds of the model *)

\* model units per 0.000001 (resolution below the sixth decimal)
Micro == 10

\* update_after_trade calls per behaviour
MaxFills == 3

\* the clock stops here
MaxTime == 3

\* rows of the trades table per behaviour
MaxTrades == 2

\* update_after_trade calls per behaviour between risk checks
MaxRiskFills == 1

\* orders executed by handle_event per behaviour
MaxOrders == 2

\* time units per UTC day
DayLen == 3

\* risk configuration, in model units
CooldownMinutes == 2
MaxDailyTrades == 2
\* 0.003, 0.0005 and 0.002
MaxTotalPositionUsdc == 3000 * Micro
MaxDailyLossUsdc == 500 * Micro
MaxSingleTradeUsdc == 2000 * Micro

\* notionals of the orders put to the risk gate: 0.001, 0.002, 0.003
OrderAmounts == {1000 * Micro, 2000 * Micro, 3000 * Micro}

\* realized P&L of the trades written directly: -0.0005, -0.001
TradePnls == {-500 * Micro, -1000 * Micro}

\* the fills applied between risk checks: 0.002 at 0.00004
RiskFillAmount == 2000 * Micro
RiskFillPrice == 40 * Micro

\* the notionals of those fills: 0.002, and the exposure cap itself
RiskFillAmounts == {RiskFillAmount, MaxTotalPositionUsdc}

Assets == {"a1", "a2"}
Actions == {"BUY", "SELL"}

\* fill prices: 0.0000004 (rounds to 0), 0.00004, 0.00006
Prices == {4, 40 * Micro, 60 * Micro}

\* notionals: 0.0000004 (rounds to 0), 0.001, 0.003
Amounts == {4, 1000 * Micro, 3000 * Micro}

---------------------------------------------------------------------------
(* Arithmetic *)

Abs(x) == IF x < 0 THEN -x ELSE x

Min(x, y) == IF x <= y THEN x ELSE y

Rat(n, d) == [n |-> n, d |-> d]

\* round(num/den, 6) for den > 0: the nearest multiple of Micro, ties to even
RoundDiv6(num, den) ==
    LET m == den * Micro
        q == num \div m
        r == num - q * m
    IN  IF 2 * r < m THEN q * Micro
        ELSE IF 2 * r > m THEN (q + 1) * Micro
        ELSE IF q % 2 = 0 THEN q * Micro
        ELSE (q + 1) * Micro

Round6(x) == RoundDiv6(x, 1)

RECURSIVE GCD(_, _)
GCD(x, y) == IF y = 0 THEN x ELSE GCD(y, x % y)

\* a rational in lowest terms, for comparing two of them
Norm(q) ==
    IF q.n = 0 THEN Rat(0, 1)
    ELSE LET g == GCD(Abs(q.n), q.d) IN Rat(q.n \div g, q.d \div g)

RatEq(x, y) == Norm(x) = Norm(y)

Round6Q(q) == RoundDiv6(q.n, q.d)

\* remaining <= 0.001
CloseThreshold == 1000 * Micro

---------------------------------------------------------------------------
(* DatabaseManager: the positions table *)

Rows(pos, a) == {r \in pos : r.asset_id = a}

NoPosition(pos, a) == Rows(pos, a) = {}

\* scalar_one_or_none
GetPosition(pos, a) == CHOOSE r \in Rows(pos, a) : TRUE

SavePosition(pos, a, size, price) ==
    pos \cup {[asset_id |-> a,
               size_usdc |-> Round6(size),
               average_price |-> Round6(price),
               realized_pnl |-> 0]}

UpdatePosition(pos, a, size, avg, pnl_delta) ==
    IF NoPosition(pos, a) THEN pos
    ELSE LET p == GetPosition(pos, a)
         IN  (pos \ {p}) \cup
             {[asset_id |-> a,
               size_usdc |-> Round6(size),
               average_price |-> Round6Q(avg),
               realized_pnl |->
                   RoundDiv6(p.realized_pnl * pnl_delta.d + pnl_delta.n,
                             pnl_delta.d)]}

DeletePosition(pos, a) ==
    IF NoPosition(pos, a) THEN pos ELSE pos \ {GetPosition(pos, a)}

---------------------------------------------------------------------------
(* PositionManager.update_after_trade: [positions, realized_pnl] *)

Zero == Rat(0, 1)

BuyFill(pos, a, price, amount) ==
    IF NoPosition(pos, a)
    THEN SavePosition(pos, a, amount, price)
    ELSE LET p == GetPosition(pos, a)
             total_usdc == p.size_usdc + amount
             new_avg == Rat(p.average_price * p.size_usdc + price * amount,
                            total_usdc)
         IN  UpdatePosition(pos, a, total_usdc, new_avg, Zero)

\* the requested notional, not capped at the open size
SellUsdcUncapped(p, amount) == amount

\* min(amount_usdc, position.size_usdc)
SellUsdc(p, amount) == Min(amount, p.size_usdc)

SellPnl(p, price, amount) ==
    IF p.average_price > 0
    THEN Rat(SellUsdc(p, amount) * (price - p.average_price), p.average_price)
    ELSE Zero

FullClose(pos, a, pnl) ==
    DeletePosition(UpdatePosition(pos, a, 0, Zero, pnl), a)

\* the partial close re-bases the row on nothing and drops the P&L
PartialCloseNoPnl(pos, a, remaining, pnl) ==
    LET p == GetPosition(pos, a)
    IN  UpdatePosition(pos, a, remaining, Rat(p.average_price, 1), Zero)

PartialClose(pos, a, remaining, pnl) ==
    LET p == GetPosition(pos, a)
    IN  UpdatePosition(pos, a, remaining, Rat(p.average_price, 1), pnl)

SellFill(pos, a, price, amount) ==
    LET p == GetPosition(pos, a)
        remaining == p.size_usdc - SellUsdc(p, amount)
        pnl == SellPnl(p, price, amount)
    IN  IF remaining <= CloseThreshold
        THEN FullClose(pos, a, pnl)
        ELSE PartialClose(pos, a, remaining, pnl)

\* only a missing row skips the SELL
SellSkippedNoRow(pos, a) == NoPosition(pos, a)

SellSkipped(pos, a) ==
    NoPosition(pos, a) \/ GetPosition(pos, a).size_usdc <= 0

UpdateAfterTrade(pos, a, action, price, amount) ==
    IF action = "BUY"
    THEN [positions |-> BuyFill(pos, a, price, amount), realized_pnl |-> Zero]
    ELSE IF SellSkipped(pos, a)
    THEN [positions |-> pos, realized_pnl |-> Zero]
    ELSE [positions |-> SellFill(pos, a, price, amount),
          realized_pnl |-> SellPnl(GetPosition(pos, a), price, amount)]

---------------------------------------------------------------------------
(* History of the BUY fills of an asset since it last had no row *)

Fresh == [pure |-> TRUE, k |-> 0, sumN |-> 0, sumPN |-> 0]

GhostAfter(g, pos2, a, action, price, amount) ==
    IF NoPosition(pos2, a) THEN Fresh
    ELSE IF action = "BUY" /\ g.pure
    THEN [pure |-> TRUE, k |-> g.k + 1, sumN |-> g.sumN + amount,
          sumPN |-> g.sumPN + price * amount]
    ELSE [pure |-> FALSE, k |-> 0, sumN |-> 0, sumPN |-> 0]

NoCall == [op |-> "none"]

\* _halted_at = None
NoneAt == -1

---------------------------------------------------------------------------
(* BacktestEngine.run before its first tick *)

\* initial_capital: 0.004
InitialCapital == 4000 * Micro

\* positions = {}: the dict with no key
EmptyDict == [a \in {} |-> 0]

\* run has not returned yet
NoResult == [returned |-> FALSE]

RunStartWith(ic) ==
    /\ tape = <<>>
    /\ first = NoResult
    /\ run_no = 1
    /\ initial_capital = ic
    /\ capital = ic
    /\ history_buffers = EmptyDict
    /\ bt_positions = EmptyDict
    /\ bt_trades = <<>>
    /\ equity_curve = <<>>
    /\ last_prices = EmptyDict
    /\ nticks = 0
    /\ nprocessed = 0
    /\ bt_state = "running"

RunStart == RunStartWith(InitialCapital)

\* the alert_log table is empty and nothing has been notified
AlertStart ==
    /\ alert_log = <<>>
    /\ notifications = <<>>

\* WebSocketClient.__init__
WsStart ==
    /\ websocket = "None"
    /\ is_running = FALSE
    /\ reconnect_count = 0
    /\ subscribed_assets = <<>>
    /\ attempts = 0
    /\ wanted = {}
    /\ nconnects = 0

---------------------------------------------------------------------------
(* The ledger driven directly, as the tests of PositionManager drive it *)

Fill(a, action, price, amount) ==
    /\ nfills < MaxFills
    /\ LET res == UpdateAfterTrade(positions, a, action, price, amount)
       IN  /\ positions' = res.positions
           /\ ghost' = [ghost EXCEPT
                  ![a] = GhostAfter(ghost[a], res.positions, a, action,
                                    price, amount)]
           /\ last' = [op |-> "update_after_trade", asset_id |-> a,
                       action |-> action, price |-> price,
                       amount_usdc |-> amount,
                       realized_pnl |-> res.realized_pnl,
                       pre |-> positions, pre_ghost |-> ghost[a]]
    /\ nfills' = nfills + 1
    /\ UNCHANGED <<trades, now, halted, halted_at, cb_enabled>>
    /\ UNCHANGED btvars

LedgerInit ==
    /\ positions = {}
    /\ ghost = [a \in Assets |-> Fresh]
    /\ nfills = 0
    /\ last = NoCall
    /\ trades = <<>>
    /\ price_history = <<>>
    /\ inbox = <<>>
    /\ tasks = <<>>
    /\ calls = <<>>
    /\ AlertStart
    /\ WsStart
    /\ max_total_position_usdc = MaxTotalPositionUsdc
    /\ now = 0
    /\ halted = FALSE
    /\ halted_at = NoneAt
    /\ cb_enabled = TRUE
    /\ RunStart

LedgerNext ==
    \E a \in Assets, action \in Actions, price \in Prices, amount \in Amounts :
        Fill(a, action, price, amount)

SpecLedger == LedgerInit /\ [][LedgerNext]_vars

---------------------------------------------------------------------------
(* Claims about the position ledger, checked under SpecLedger *)

LastFill == last.op = "update_after_trade"

LastSell == LastFill /\ last.action = "SELL"

\* the row of the filled asset before the last call
PreRow == GetPosition(last.pre, last.asset_id)

\* before the last call the filled asset had no row, or a row of size <= 0
NoOpenPosition ==
    \A r \in Rows(last.pre, last.asset_id) : r.size_usdc <= 0

LastSellApplied == LastSell /\ ~NoOpenPosition

OthersUnchanged ==
    \A r \in last.pre \cup positions :
        r.asset_id # last.asset_id => (r \in last.pre /\ r \in positions)

\* C1: after any sequence of update_after_trade calls with positive notional
\* and positive price there is at most one row per asset, every stored row
\* has size > 0 and average_price > 0, and a SELL that leaves
\* remaining <= 0.001 leaves no row for the asset.
C1_LedgerExistence ==
    /\ \A a \in Assets : Cardinality(Rows(positions, a)) <= 1
    /\ \A r \in positions : r.size_usdc > 0 /\ r.average_price > 0
    /\ (LastSellApplied
        /\ PreRow.size_usdc - SellUsdc(PreRow, last.amount_usdc)
               <= CloseThreshold)
       => NoPosition(positions, last.asset_id)

\* C2: after k >= 1 BUY fills on an asset that had no row, the row's size is
\* the sum of the notionals and its average_price is the notional-weighted
\* mean of the prices, each within half a unit of the sixth decimal per fill.
C2_WeightedAverage ==
    \A a \in Assets :
        (ghost[a].pure /\ ghost[a].k >= 1) =>
            /\ Cardinality(Rows(positions, a)) = 1
            /\ LET p == GetPosition(positions, a)
                   g == ghost[a]
               IN  /\ 2 * Abs(p.size_usdc - g.sumN) <= g.k * Micro
                   /\ 2 * Abs(p.average_price * g.sumN - g.sumPN)
                          <= g.k * Micro * g.sumN

\* the last call sold the notional N that one BUY had put on a fresh asset
RoundTrip ==
    /\ LastSell
    /\ last.pre_ghost.pure
    /\ last.pre_ghost.k = 1
    /\ last.pre_ghost.sumN = last.amount_usdc

\* C3: BUY of N at p1 on a fresh asset, then SELL of N at p2, returns
\* N*(p2-p1)/p1 and leaves no row for the asset.
C3_RoundTripPnl ==
    RoundTrip =>
        LET N == last.amount_usdc
            p1 == last.pre_ghost.sumPN \div N
        IN  /\ RatEq(last.realized_pnl, Rat(N * (last.price - p1), p1))
            /\ NoPosition(positions, last.asset_id)

\* the last call was a SELL of s on a row of size S with S - s > 0.001
PartialSell ==
    /\ LastSellApplied
    /\ PreRow.size_usdc - last.amount_usdc > CloseThreshold

\* s*(fill_price - average_price)/average_price, 0 when average_price is 0
PnlOn(s, price, avg) == IF avg > 0 THEN Rat(s * (price - avg), avg) ELSE Zero

PartialSellCommon ==
    /\ Cardinality(Rows(positions, last.asset_id)) = 1
    /\ GetPosition(positions, last.asset_id).average_price
           = PreRow.average_price
    /\ RatEq(last.realized_pnl,
             PnlOn(last.amount_usdc, last.price, PreRow.average_price))
    /\ OthersUnchanged

\* C4 as stated: the partial SELL leaves average_price unchanged, sets size
\* to exactly S - s, returns s*(fill - avg)/avg, adds exactly that to the
\* row's cumulative realized_pnl and changes no other asset's row.
C4_PartialCloseExact ==
    PartialSell =>
        /\ PartialSellCommon
        /\ LET q == GetPosition(positions, last.asset_id)
               pnl == last.realized_pnl
           IN  /\ q.size_usdc = PreRow.size_usdc - last.amount_usdc
               /\ q.realized_pnl * pnl.d
                      = PreRow.realized_pnl * pnl.d + pnl.n

\* C4 amended: as C4, with the stored size equal to S - s rounded to six
\* decimals and the stored cumulative realized_pnl equal to the old value
\* plus the returned P&L, rounded to six decimals.
C4_PartialCloseRounded ==
    PartialSell =>
        /\ PartialSellCommon
        /\ LET q == GetPosition(positions, last.asset_id)
               pnl == last.realized_pnl
           IN  /\ q.size_usdc = Round6(PreRow.size_usdc - last.amount_usdc)
               /\ q.realized_pnl
                      = RoundDiv6(PreRow.realized_pnl * pnl.d + pnl.n, pnl.d)

C4_Witness ==
    /\ PartialSell
    /\ last.amount_usdc = 4
    /\ PreRow.average_price > 0
    /\ last.realized_pnl.n # 0
    /\ \E r \in positions : r.asset_id # last.asset_id

\* the last call was a SELL asking for more than the open size S > 0
Oversell ==
    /\ LastSellApplied
    /\ last.amount_usdc > PreRow.size_usdc

\* C5: a SELL asking for more than the open size S sells S: the returned P&L
\* is computed on S, the row is deleted, and no stored size is ever negative.
C5_OversellCapped ==
    /\ \A r \in positions : r.size_usdc >= 0
    /\ Oversell =>
        /\ RatEq(last.realized_pnl,
                 PnlOn(PreRow.size_usdc, last.price, PreRow.average_price))
        /\ NoPosition(positions, last.asset_id)

C5_Witness ==
    /\ Oversell
    /\ PreRow.average_price > 0
    /\ last.price # PreRow.average_price

\* C6: a SELL on an asset with no row, or with a row of size <= 0, returns 0
\* and leaves every row of every asset as it was.
C6_SellNoPositionNoop ==
    (LastSell /\ NoOpenPosition) =>
        /\ last.realized_pnl = Zero
        /\ positions = last.pre

C6_Witness ==
    /\ LastSell
    /\ NoPosition(last.pre, last.asset_id)
    /\ positions # {}

C6_WitnessZeroSize ==
    /\ LastSell
    /\ ~NoPosition(last.pre, last.asset_id)
    /\ NoOpenPosition

---------------------------------------------------------------------------
(* DatabaseManager: the trades table *)

SaveTrade(tr, a, action, price, amount, has_pnl, pnl, t) ==
    Append(tr, [asset_id |-> a, action |-> action,
                price |-> Round6(price),
                amount_usdc |-> Round6(amount),
                has_pnl |-> has_pnl,
                realized_pnl |-> IF has_pnl THEN Round6Q(pnl) ELSE 0,
                created_at |-> t])

\* the start of the UTC day of t
TodayStart(t) == t - (t % DayLen)

\* every trade counts, whatever its day
GetTradesSinceAnyDay(tr, since) == tr

GetTradesSince(tr, since) == SelectSeq(tr, LAMBDA r : r.created_at >= since)

RECURSIVE SumPnl(_)
SumPnl(tr) ==
    IF tr = <<>> THEN 0
    ELSE (IF Head(tr).has_pnl THEN Head(tr).realized_pnl ELSE 0)
         + SumPnl(Tail(tr))

\* coalesce(sum(realized_pnl), 0) over the trades of today
GetDailyPnl(tr, t) == SumPnl(GetTradesSince(tr, TodayStart(t)))

RECURSIVE SumSize(_)
SumSize(pos) ==
    IF pos = {} THEN 0
    ELSE LET r == CHOOSE x \in pos : TRUE
         IN  r.size_usdc + SumSize(pos \ {r})

\* PositionManager.get_total_position_usdc
GetTotalPositionUsdc(pos) == SumSize(pos)

---------------------------------------------------------------------------
(* RiskManager *)

Breaker(h, at) == [halted |-> h, halted_at |-> at]

\* a blocked call restarts the cooldown
CheckCircuitBreakerExtend(h, at, t) ==
    IF ~h THEN [blocked |-> FALSE, halted |-> h, halted_at |-> at]
    ELSE IF ~cb_enabled THEN [blocked |-> FALSE, halted |-> h, halted_at |-> at]
    ELSE IF t - at >= CooldownMinutes
    THEN [blocked |-> FALSE, halted |-> FALSE, halted_at |-> NoneAt]
    ELSE [blocked |-> TRUE, halted |-> h, halted_at |-> t]

\* the cooldown must be exceeded, not reached
CheckCircuitBreakerStrict(h, at, t) ==
    IF ~h THEN [blocked |-> FALSE, halted |-> h, halted_at |-> at]
    ELSE IF ~cb_enabled THEN [blocked |-> FALSE, halted |-> h, halted_at |-> at]
    ELSE IF t - at > CooldownMinutes
    THEN [blocked |-> FALSE, halted |-> FALSE, halted_at |-> NoneAt]
    ELSE [blocked |-> TRUE, halted |-> h, halted_at |-> at]

\* the reset clears the flag and keeps the timestamp
CheckCircuitBreakerStale(h, at, t) ==
    IF ~h THEN [blocked |-> FALSE, halted |-> h, halted_at |-> at]
    ELSE IF ~cb_enabled THEN [blocked |-> FALSE, halted |-> h, halted_at |-> at]
    ELSE IF t - at >= CooldownMinutes
    THEN [blocked |-> FALSE, halted |-> FALSE, halted_at |-> at]
    ELSE [blocked |-> TRUE, halted |-> h, halted_at |-> at]

\* [blocked, halted, halted_at]
CheckCircuitBreaker(h, at, t) ==
    IF ~h THEN [blocked |-> FALSE, halted |-> h, halted_at |-> at]
    ELSE IF ~cb_enabled THEN [blocked |-> FALSE, halted |-> h, halted_at |-> at]
    ELSE IF t - at >= CooldownMinutes
    THEN [blocked |-> FALSE, halted |-> FALSE, halted_at |-> NoneAt]
    ELSE [blocked |-> TRUE, halted |-> h, halted_at |-> at]

TriggerCircuitBreaker(t) == Breaker(TRUE, t)

\* an order at the cap is rejected too
ExceedsSingleTradeAtCap(amount) == amount >= MaxSingleTradeUsdc

ExceedsSingleTrade(amount) == amount > MaxSingleTradeUsdc

\* the exposure cap applied to SELL as well
ExceedsTotalPositionAnyAction(pos, action, amount) ==
    GetTotalPositionUsdc(pos) + amount > max_total_position_usdc

\* the exposure cap applied to the order alone
ExceedsTotalPositionAlone(pos, action, amount) ==
    action = "BUY" /\ amount > max_total_position_usdc

ExceedsTotalPosition(pos, action, amount) ==
    /\ action = "BUY"
    /\ GetTotalPositionUsdc(pos) + amount > max_total_position_usdc

DailyTradesReached(tr, t) ==
    Len(GetTradesSince(tr, TodayStart(t))) >= MaxDailyTrades

DailyLossBreached(tr, t) == GetDailyPnl(tr, t) < -MaxDailyLossUsdc

Verdict(allow, step, b) ==
    [allow |-> allow, step |-> step, halted |-> b.halted,
     halted_at |-> b.halted_at]

\* the daily loss looked at before the caps and the count
CheckOrderLossFirst(pos, tr, h, at, t, action, amount) ==
    LET cb == CheckCircuitBreaker(h, at, t)
        b == Breaker(cb.halted, cb.halted_at)
    IN  IF cb.blocked THEN Verdict(FALSE, 1, b)
        ELSE IF DailyLossBreached(tr, t)
        THEN Verdict(FALSE, 5, TriggerCircuitBreaker(t))
        ELSE IF ExceedsSingleTrade(amount) THEN Verdict(FALSE, 2, b)
        ELSE IF ExceedsTotalPosition(pos, action, amount)
        THEN Verdict(FALSE, 3, b)
        ELSE IF DailyTradesReached(tr, t) THEN Verdict(FALSE, 4, b)
        ELSE Verdict(TRUE, 0, b)

\* check_order: the decision, the step that rejected (0: none), the breaker
CheckOrder(pos, tr, h, at, t, action, amount) ==
    LET cb == CheckCircuitBreaker(h, at, t)
        b == Breaker(cb.halted, cb.halted_at)
    IN  IF cb.blocked THEN Verdict(FALSE, 1, b)
        ELSE IF ExceedsSingleTrade(amount) THEN Verdict(FALSE, 2, b)
        ELSE IF ExceedsTotalPosition(pos, action, amount)
        THEN Verdict(FALSE, 3, b)
        ELSE IF DailyTradesReached(tr, t) THEN Verdict(FALSE, 4, b)
        ELSE IF DailyLossBreached(tr, t)
        THEN Verdict(FALSE, 5, TriggerCircuitBreaker(t))
        ELSE Verdict(TRUE, 0, b)

---------------------------------------------------------------------------
(* The risk gate between trade writes, fills and the passing of time *)

\* a check that leaves a row in the trades table
CheckOrderCallWriting(a, action, amount) ==
    /\ LET v == CheckOrder(positions, trades, halted, halted_at, now,
                           action, amount)
       IN  /\ halted' = v.halted
           /\ halted_at' = v.halted_at
           /\ last' = [op |-> "check_order",
                       action |-> action, amount_usdc |-> amount,
                       allow |-> v.allow, step |-> v.step,
                       pre_halted |-> halted, pre_halted_at |-> halted_at,
                       at |-> now,
                       total |-> GetTotalPositionUsdc(positions),
                       trades_today |->
                           Len(GetTradesSince(trades, TodayStart(now))),
                       daily_pnl |-> GetDailyPnl(trades, now)]
    /\ trades' = SaveTrade(trades, a, action, RiskFillPrice, amount, FALSE,
                           Zero, now)
    /\ UNCHANGED <<positions, ghost, nfills, now, cb_enabled>>
    /\ UNCHANGED btvars

CheckOrderCall(a, action, amount) ==
    /\ LET v == CheckOrder(positions, trades, halted, halted_at, now,
                           action, amount)
       IN  /\ halted' = v.halted
           /\ halted_at' = v.halted_at
           /\ last' = [op |-> "check_order",
                       action |-> action, amount_usdc |-> amount,
                       allow |-> v.allow, step |-> v.step,
                       pre_halted |-> halted, pre_halted_at |-> halted_at,
                       at |-> now,
                       total |-> GetTotalPositionUsdc(positions),
                       trades_today |->
                           Len(GetTradesSince(trades, TodayStart(now))),
                       daily_pnl |-> GetDailyPnl(trades, now)]
    /\ UNCHANGED <<positions, ghost, nfills, trades, now, cb_enabled>>
    /\ UNCHANGED btvars

\* db.save_trade(...) of a SELL with or without a realized P&L
RecordTrade(a, has_pnl, pnl) ==
    /\ Len(trades) < MaxTrades
    /\ trades' = SaveTrade(trades, a, "SELL", RiskFillPrice, RiskFillAmount,
                           has_pnl, Rat(pnl, 1), now)
    /\ last' = [op |-> "save_trade"]
    /\ UNCHANGED <<positions, ghost, nfills, now, halted, halted_at,
                   cb_enabled>>
    /\ UNCHANGED btvars

Tick ==
    /\ now < MaxTime
    /\ now' = now + 1
    /\ last' = [op |-> "tick"]
    /\ UNCHANGED <<positions, ghost, nfills, trades, halted, halted_at,
                   cb_enabled>>
    /\ UNCHANGED btvars

RiskInit ==
    /\ positions = {}
    /\ ghost = [a \in Assets |-> Fresh]
    /\ nfills = 0
    /\ last = NoCall
    /\ trades = <<>>
    /\ price_history = <<>>
    /\ inbox = <<>>
    /\ tasks = <<>>
    /\ calls = <<>>
    /\ AlertStart
    /\ WsStart
    /\ max_total_position_usdc = MaxTotalPositionUsdc
    /\ now = 0
    /\ halted = FALSE
    /\ halted_at = NoneAt
    /\ cb_enabled \in BOOLEAN
    /\ RunStart

RiskNext ==
    \/ Tick
    \/ \E a \in Assets, action \in Actions, amount \in OrderAmounts :
           CheckOrderCall(a, action, amount)
    \/ \E pnl \in TradePnls : RecordTrade("a1", TRUE, pnl)
    \/ /\ nfills < MaxRiskFills
       /\ \E amount \in RiskFillAmounts :
              Fill("a1", "BUY", RiskFillPrice, amount)

SpecRisk == RiskInit /\ [][RiskNext]_vars

---------------------------------------------------------------------------
(* Claims about the risk gate, checked under SpecRisk *)

LastCheck == last.op = "check_order"

\* the call was made with the breaker halted, before the cooldown elapsed
InCooldown ==
    /\ LastCheck
    /\ last.pre_halted
    /\ last.at - last.pre_halted_at < CooldownMinutes

\* the call was made with the breaker halted, once the cooldown had elapsed
AfterCooldown ==
    /\ LastCheck
    /\ last.pre_halted
    /\ last.at - last.pre_halted_at >= CooldownMinutes

\* the order is within the single-trade, exposure and daily-count limits
WithinLimits ==
    /\ last.amount_usdc <= MaxSingleTradeUsdc
    /\ last.action = "BUY" =>
           last.total + last.amount_usdc <= MaxTotalPositionUsdc
    /\ last.trades_today < MaxDailyTrades

LossBreached == last.daily_pnl < -MaxDailyLossUsdc

\* a call that reaches step 5 in breach rejects and trips the breaker at now
TripsOnBreach ==
    (LastCheck /\ last.step \in {0, 5} /\ LossBreached) =>
        /\ ~last.allow
        /\ halted
        /\ halted_at = last.at

\* a call within the cooldown is rejected and leaves the breaker as it was
RejectedInCooldown ==
    InCooldown =>
        /\ ~last.allow
        /\ halted = last.pre_halted
        /\ halted_at = last.pre_halted_at

\* C7 as stated: a daily-loss breach at step 5 rejects and latches the
\* breaker at now, and every check_order call made before the cooldown has
\* elapsed is rejected without changing halted or halted-at.
C7_BreakerLatches == TripsOnBreach /\ RejectedInCooldown

\* C7 amended: the same, the second half for a breaker that is enabled
\* (circuit_breaker.enabled, true by default).
C7_BreakerLatchesWhenEnabled ==
    TripsOnBreach /\ (cb_enabled => RejectedInCooldown)

C7_Witness ==
    /\ InCooldown
    /\ cb_enabled
    /\ last.at > last.pre_halted_at
    /\ WithinLimits
    /\ ~LossBreached

\* C8 as stated: the first check_order call made once the cooldown has
\* elapsed, for an order within the single-trade, exposure and daily-count
\* limits, is accepted and leaves the breaker reset (stated for a breaker
\* that is enabled, the configuration the claim is about).
C8_AutoRecovery ==
    (AfterCooldown /\ WithinLimits /\ cb_enabled) => (last.allow /\ ~halted)

\* C8 amended: with the breaker enabled, that call is accepted and leaves
\* the breaker reset when today's realized P&L is not below
\* -max_daily_loss; when it still is, the call resets the breaker, is
\* rejected at step 5 and trips it again with halted-at = now.
C8_AutoRecoveryUnlessStillBreached ==
    (AfterCooldown /\ WithinLimits /\ cb_enabled) =>
        IF LossBreached
        THEN ~last.allow /\ last.step = 5 /\ halted /\ halted_at = last.at
        ELSE last.allow /\ ~halted /\ halted_at = NoneAt

C8_Witness ==
    /\ AfterCooldown
    /\ WithinLimits
    /\ cb_enabled
    /\ last.at - last.pre_halted_at = CooldownMinutes
    /\ last.allow

C8_WitnessRetrip ==
    /\ AfterCooldown
    /\ WithinLimits
    /\ cb_enabled
    /\ LossBreached

BreakerConsistent == halted <=> halted_at # NoneAt

BreakerStep ==
    (halted' # halted \/ halted_at' # halted_at) =>
        /\ last'.op = "check_order"
        /\ (~halted /\ halted') =>
               (last'.daily_pnl < -MaxDailyLossUsdc /\ halted_at' = now)
        /\ (halted /\ ~halted') => now - halted_at >= CooldownMinutes
        /\ (halted /\ halted') =>
               (last'.daily_pnl < -MaxDailyLossUsdc /\ halted_at' = now)

\* C9: halted holds exactly when halted-at is set; the breaker goes from
\* Normal to Halted only in a check_order call whose daily realized P&L is
\* below -max_daily_loss, from Halted to Normal only in a check_order call
\* made at least cooldown_minutes after halted-at, and no other operation
\* changes halted or halted-at.
C9_TwoStateBreaker == []BreakerConsistent /\ [][BreakerStep]_vars

C9_Witness ==
    /\ LastCheck
    /\ last.pre_halted
    /\ ~halted

\* C10: with the breaker not halted, an order above max_single_trade is
\* rejected at step 2 whatever the other limits say, and an order at the
\* cap exactly is not rejected by step 2.
C10_SingleTradeCap ==
    (LastCheck /\ ~last.pre_halted) =>
        /\ last.amount_usdc > MaxSingleTradeUsdc =>
               (~last.allow /\ last.step = 2)
        /\ last.amount_usdc = MaxSingleTradeUsdc => last.step # 2

C10_Witness ==
    /\ LastCheck
    /\ ~last.pre_halted
    /\ last.amount_usdc > MaxSingleTradeUsdc
    /\ last.total + last.amount_usdc <= MaxTotalPositionUsdc
    /\ last.trades_today < MaxDailyTrades
    /\ ~LossBreached
    /\ ~last.allow

C10_WitnessAtCap ==
    /\ LastCheck
    /\ ~last.pre_halted
    /\ last.amount_usdc = MaxSingleTradeUsdc
    /\ last.allow

\* the trades whose created_at is at or after the start of the UTC day of
\* the last check
TradesToday ==
    Cardinality({i \in DOMAIN trades :
                    trades[i].created_at >= last.at - (last.at % DayLen)})

OverExposure == last.total + last.amount_usdc > MaxTotalPositionUsdc

C11_WitnessBuyAtCap ==
    /\ LastCheck
    /\ last.action = "BUY"
    /\ last.total > 0
    /\ last.total + last.amount_usdc = MaxTotalPositionUsdc
    /\ last.allow

C12_WitnessRejected ==
    /\ LastCheck
    /\ last.step = 4
    /\ TradesToday = MaxDailyTrades

\* the gates of check_order, from the arguments and the state of the call
Blocked ==
    /\ last.pre_halted
    /\ cb_enabled
    /\ last.at - last.pre_halted_at < CooldownMinutes

FirstFailing ==
    IF Blocked THEN 1
    ELSE IF last.amount_usdc > MaxSingleTradeUsdc THEN 2
    ELSE IF last.action = "BUY" /\ OverExposure THEN 3
    ELSE IF TradesToday >= MaxDailyTrades THEN 4
    ELSE IF LossBreached THEN 5
    ELSE 0

Tripped == halted /\ (~last.pre_halted \/ halted_at # last.pre_halted_at)

InOrder ==
    /\ last.step = FirstFailing
    /\ last.allow <=> FirstFailing = 0
    /\ Tripped => last.step = 5

\* C13 as stated: the first failing check decides, the breaker is tripped
\* only by a call that passed steps 1-4, and an order rejected at steps 2,
\* 3 or 4 leaves halted and halted-at unchanged.
C13_ShortCircuitUnchanged ==
    LastCheck =>
        /\ InOrder
        /\ last.step \in {2, 3, 4} =>
               (halted = last.pre_halted /\ halted_at = last.pre_halted_at)

\* C13 amended: an order rejected at steps 2, 3 or 4 leaves the breaker as
\* step 1 left it: reset when an enabled breaker's cooldown had elapsed,
\* unchanged otherwise.
C13_ShortCircuit ==
    LastCheck =>
        /\ InOrder
        /\ last.step \in {2, 3, 4} =>
               IF last.pre_halted /\ cb_enabled
               THEN ~halted /\ halted_at = NoneAt
               ELSE halted = last.pre_halted
                    /\ halted_at = last.pre_halted_at

C13_Witness ==
    /\ LastCheck
    /\ last.step \in {2, 3, 4}
    /\ LossBreached
    /\ ~last.pre_halted
    /\ ~halted

C13_WitnessCleared ==
    /\ LastCheck
    /\ last.step \in {2, 3, 4}
    /\ last.pre_halted
    /\ ~halted

\* C14: a check_order call changes no position row and no trade row; of
\* the state it may change only halted and halted-at.
C14_CheckOrderFrame ==
    [][last'.op = "check_order" =>
           /\ positions' = positions
           /\ trades' = trades
           /\ cb_enabled' = cb_enabled
           /\ now' = now]_vars

C14_Witness ==
    /\ LastCheck
    /\ positions # {}
    /\ trades # <<>>
    /\ halted # last.pre_halted

---------------------------------------------------------------------------
(* Execution pricing: OrderExecutor and BacktestEngine *)

\* best_bid / best_ask = None
NoQuote == -1

\* raw prices and quotes: 0.0000004, 0.0000006 (below the sixth decimal),
\* 0.00059, 0.00061
QuotePrices == {4, 6, 590 * Micro, 610 * Micro}

Quotes == QuotePrices \cup {NoQuote}

\* slippage_bps: none, 1%, 5%, 100%
SlippageBpsValues == {0, 100, 500, 10000}

\* slippage that lowers the BUY price and raises the SELL price
CalcExecutionPriceFavourable(use_book_price, slippage_bps, action, price, best_bid, best_ask) ==
    LET base == IF use_book_price /\ action = "BUY" /\ best_ask # NoQuote
                THEN best_ask
                ELSE IF use_book_price /\ action = "SELL"
                        /\ best_bid # NoQuote
                THEN best_bid
                ELSE price
    IN  IF action = "BUY"
        THEN RoundDiv6(base * (10000 - slippage_bps), 10000)
        ELSE RoundDiv6(base * (10000 + slippage_bps), 10000)

\* OrderExecutor.calc_execution_price
CalcExecutionPrice(use_book_price, slippage_bps, action, price, best_bid, best_ask) ==
    LET base == IF use_book_price /\ action = "BUY" /\ best_ask # NoQuote
                THEN best_ask
                ELSE IF use_book_price /\ action = "SELL"
                        /\ best_bid # NoQuote
                THEN best_bid
                ELSE price
    IN  IF action = "BUY"
        THEN RoundDiv6(base * (10000 + slippage_bps), 10000)
        ELSE RoundDiv6(base * (10000 - slippage_bps), 10000)

\* a backtest that prices every order off the raw price
BtCalcExecutionPriceRaw(use_book_price, slippage_bps, action, price, best_bid, best_ask) ==
    IF action = "BUY"
    THEN RoundDiv6(price * (10000 + slippage_bps), 10000)
    ELSE RoundDiv6(price * (10000 - slippage_bps), 10000)

\* float(best_ask), float(best_bid) of a number
Float(x) == x

\* BacktestEngine._calc_execution_price
BtCalcExecutionPrice(use_book_price, slippage_bps, action, price, best_bid, best_ask) ==
    LET base == IF use_book_price /\ action = "BUY" /\ best_ask # NoQuote
                THEN Float(best_ask)
                ELSE IF use_book_price /\ action = "SELL"
                        /\ best_bid # NoQuote
                THEN Float(best_bid)
                ELSE price
        slip == slippage_bps
    IN  IF action = "BUY"
        THEN RoundDiv6(base * (10000 + slip), 10000)
        ELSE RoundDiv6(base * (10000 - slip), 10000)

\* both pricing functions applied to the same arguments and configuration
CalcPrice(use_book_price, slippage_bps, action, price, best_bid, best_ask) ==
    /\ last' = [op |-> "calc_execution_price",
                use_book_price |-> use_book_price,
                slippage_bps |-> slippage_bps,
                action |-> action, price |-> price,
                best_bid |-> best_bid, best_ask |-> best_ask,
                live |-> CalcExecutionPrice(use_book_price, slippage_bps,
                                            action, price, best_bid,
                                            best_ask),
                backtest |-> BtCalcExecutionPrice(use_book_price,
                                                  slippage_bps, action,
                                                  price, best_bid, best_ask)]
    /\ UNCHANGED <<positions, ghost, nfills, trades, now, halted, halted_at,
                   cb_enabled>>
    /\ UNCHANGED btvars

PricingNext ==
    \E use_book_price \in BOOLEAN, slippage_bps \in SlippageBpsValues,
       action \in Actions, price \in QuotePrices,
       best_bid \in Quotes, best_ask \in Quotes :
        CalcPrice(use_book_price, slippage_bps, action, price, best_bid,
                  best_ask)

SpecPricing == LedgerInit /\ [][PricingNext]_vars

---------------------------------------------------------------------------
(* Claims about execution pricing, checked under SpecPricing *)

LastPrice == last.op = "calc_execution_price"

\* best_ask (BUY) or best_bid (SELL) in book-price mode when the quote is
\* present, raw_price otherwise
Base ==
    IF last.use_book_price /\ last.action = "BUY" /\ last.best_ask # NoQuote
    THEN last.best_ask
    ELSE IF last.use_book_price /\ last.action = "SELL"
            /\ last.best_bid # NoQuote
    THEN last.best_bid
    ELSE last.price

\* round6(base*(1 + bps/10000)) for BUY, round6(base*(1 - bps/10000)) for SELL
FillFormula ==
    last.live = IF last.action = "BUY"
                THEN RoundDiv6(Base * (10000 + last.slippage_bps), 10000)
                ELSE RoundDiv6(Base * (10000 - last.slippage_bps), 10000)

\* C16 as stated: the fill is the rounded slipped base, and so a BUY fill
\* is >= base and a SELL fill is <= base.
C16_SlippageAgainstTrader ==
    LastPrice =>
        /\ FillFormula
        /\ last.action = "BUY" => last.live >= Base
        /\ last.action = "SELL" => last.live <= Base

\* C16 amended: the fill is the rounded slipped base, and so a BUY fill is
\* >= base rounded to 6 decimals and a SELL fill is <= base rounded to 6
\* decimals; they are >= base and <= base when base has at most 6 decimals.
C16_SlippageAgainstRoundedBase ==
    LastPrice =>
        /\ FillFormula
        /\ last.action = "BUY" => last.live >= Round6(Base)
        /\ last.action = "SELL" => last.live <= Round6(Base)
        /\ Base = Round6(Base) =>
               /\ last.action = "BUY" => last.live >= Base
               /\ last.action = "SELL" => last.live <= Base

C16_Witness ==
    /\ LastPrice
    /\ last.action = "BUY"
    /\ last.use_book_price
    /\ last.best_ask # NoQuote
    /\ last.best_ask # last.price
    /\ last.slippage_bps = 100
    /\ last.live > Base

C16_WitnessSell ==
    /\ LastPrice
    /\ last.action = "SELL"
    /\ last.best_bid # NoQuote
    /\ ~last.use_book_price
    /\ last.best_bid # last.price
    /\ last.live < Base

\* C17: given the same action, raw price, quotes and slippage
\* configuration, the live executor and the backtest engine return the
\* same fill price.
C17_PricingParity == LastPrice => last.live = last.backtest

C17_Witness ==
    /\ LastPrice
    /\ last.use_book_price
    /\ last.action = "SELL"
    /\ last.best_bid # NoQuote
    /\ last.best_bid # last.price
    /\ last.slippage_bps > 0
    /\ last.live = last.backtest
    /\ last.live # Round6(last.price)

---------------------------------------------------------------------------
(* StrategyHandler.handle_event over the risk gate, the executor and the
   ledger *)

\* slippage configuration of the live executor: book prices, 5%
UseBookPrice == TRUE
SlippageBps == 500

\* tick prices of the live path: 0.00005
TickPrices == {50 * Micro}
\* the book of a tick: no quotes, or bid 0.00004 and ask 0.00006
TickBooks == {[best_bid |-> NoQuote, best_ask |-> NoQuote],
              [best_bid |-> 40 * Micro, best_ask |-> 60 * Micro]}

\* notionals the strategy asks for: none, 0.001, 0.003
SignalAmounts == {0, 1000 * Micro, 3000 * Micro}

\* what calculate_signal does on a tick: it raises ("raises"), returns
\* something that is not a dict ("not_a_dict"), or returns a dict with an
\* action and an amount that is a number ("signal"), is not there
\* ("missing_amount"), is None ("null_amount") or is a string that is not
\* a number ("string_amount")
Signal(action, amount) ==
    [kind |-> "signal", action |-> action, amount |-> amount]

Malformed(kind, action) == [kind |-> kind, action |-> action, amount |-> 0]

\* an action outside BUY, SELL, HOLD
UnknownAction == "FOO"

\* the answers that are no order: an exception, a non-dict, an unknown
\* action, an amount that is missing, None, not a number, or negative
Faults ==
    {Malformed("raises", "HOLD"), Malformed("not_a_dict", "HOLD"),
     Signal(UnknownAction, 1000 * Micro),
     Malformed("missing_amount", "BUY"), Malformed("null_amount", "SELL"),
     Malformed("string_amount", "BUY"), Signal("BUY", -1000 * Micro)}

\* the answers that are a BUY or a SELL of some notional
Orders ==
    {Signal(action, amount) :
        action \in {"BUY", "SELL"}, amount \in SignalAmounts}

Signals == Orders \cup {Signal("HOLD", 0)} \cup Faults

\* a validation that lets any action of a dict through
ValidateSignalAnyAction(sig) ==
    /\ sig.kind \notin {"raises", "not_a_dict"}
    /\ sig.action # "HOLD" => sig.kind = "signal"

\* _validate_signal: a dict, an action of the three, and for BUY and SELL
\* an amount that float() takes
ValidateSignal(sig) ==
    /\ sig.kind \notin {"raises", "not_a_dict"}
    /\ sig.action \in {"BUY", "SELL", "HOLD"}
    /\ sig.action # "HOLD" => sig.kind = "signal"

Outcome(pos, tr, b, outcome, allow, exec_price) ==
    [positions |-> pos, trades |-> tr, halted |-> b.halted,
     halted_at |-> b.halted_at, outcome |-> outcome, allow |-> allow,
     exec_price |-> exec_price]

\* OrderExecutor.execute, update_after_trade and the P&L trade row
ExecuteOrder(pos, tr, t, a, action, price, amount, best_bid, best_ask) ==
    LET exec_price == CalcExecutionPrice(UseBookPrice, SlippageBps, action,
                                         price, best_bid, best_ask)
        tr1 == SaveTrade(tr, a, action, exec_price, Round6(amount), FALSE,
                         Zero, t)
        res == UpdateAfterTrade(pos, a, action, exec_price, amount)
        tr2 == IF res.realized_pnl.n # 0
               THEN SaveTrade(tr1, a, action, exec_price, amount, TRUE,
                              res.realized_pnl, t)
               ELSE tr1
    IN  [positions |-> res.positions, trades |-> tr2,
         exec_price |-> exec_price]

\* lines 118-151, after the risk gate has said yes
Executed(b, x) ==
    Outcome(x.positions, x.trades, b, "executed", TRUE, x.exec_price)

\* lines 107-151, with the verdict v of check_order
Checked(pos, tr, t, a, price, best_bid, best_ask, sig, v) ==
    IF ~v.allow
    THEN Outcome(pos, tr, Breaker(v.halted, v.halted_at), "rejected",
                 FALSE, NoQuote)
    ELSE Executed(Breaker(v.halted, v.halted_at),
                  ExecuteOrder(pos, tr, t, a, sig.action, price, sig.amount,
                               best_bid, best_ask))

\* the order is executed whatever the risk gate says
HandleSignalUngated(pos, tr, h, at, t, a, price, best_bid, best_ask, sig) ==
    LET v == CheckOrder(pos, tr, h, at, t, sig.action, sig.amount)
        x == ExecuteOrder(pos, tr, t, a, sig.action, price, sig.amount,
                          best_bid, best_ask)
    IN  IF \/ sig.kind = "raises"
           \/ ~ValidateSignal(sig)
           \/ sig.action = "HOLD"
           \/ sig.amount <= 0
        THEN Outcome(pos, tr, Breaker(h, at), "none", FALSE, NoQuote)
        ELSE Outcome(x.positions, x.trades, Breaker(v.halted, v.halted_at),
                     IF v.allow THEN "executed" ELSE "rejected", v.allow,
                     x.exec_price)

\* handle_event from the strategy call on: lines 89-154
HandleSignal(pos, tr, h, at, t, a, price, best_bid, best_ask, sig) ==
    IF \/ sig.kind = "raises"
       \/ ~ValidateSignal(sig)
       \/ sig.action = "HOLD"
       \/ sig.amount <= 0
    THEN Outcome(pos, tr, Breaker(h, at), "none", FALSE, NoQuote)
    ELSE Checked(pos, tr, t, a, price, best_bid, best_ask, sig,
                 CheckOrder(pos, tr, h, at, t, sig.action, sig.amount))

HandleEvent(a, price, best_bid, best_ask, sig) ==
    /\ nfills < MaxOrders
    /\ \E o \in {HandleSignal(positions, trades, halted, halted_at, now, a,
                             Float(price), best_bid, best_ask, sig)} :
           /\ positions' = o.positions
           /\ trades' = o.trades
           /\ halted' = o.halted
           /\ halted_at' = o.halted_at
           /\ nfills' = IF o.outcome = "executed" THEN nfills + 1 ELSE nfills
           /\ ghost' = IF o.outcome = "executed"
                       THEN [ghost EXCEPT
                                ![a] = GhostAfter(ghost[a], o.positions, a,
                                                  sig.action, o.exec_price,
                                                  sig.amount)]
                       ELSE ghost
           /\ last' = [op |-> "handle_event", asset_id |-> a,
                       kind |-> sig.kind, action |-> sig.action,
                       amount_usdc |-> sig.amount, outcome |-> o.outcome,
                       allow |-> o.allow, exec_price |-> o.exec_price,
                       pre |-> positions, pre_trades |-> trades,
                       pre_halted |-> halted, pre_halted_at |-> halted_at,
                       at |-> now]
    /\ UNCHANGED <<now, cb_enabled>>
    /\ UNCHANGED btvars

\* the ticks on which the strategy orders come with either book, the
\* others with a book without quotes
HandlerNext ==
    \/ Tick
    \/ \E a \in Assets, price \in TickPrices, book \in TickBooks,
          sig \in Orders :
           HandleEvent(a, price, book.best_bid, book.best_ask, sig)
    \/ \E a \in Assets, price \in TickPrices, sig \in Signals \ Orders :
           HandleEvent(a, price, NoQuote, NoQuote, sig)

SpecHandler == RiskInit /\ [][HandlerNext]_vars

---------------------------------------------------------------------------
(* Claims about the live path, checked under SpecHandler *)

LastEvent == last.op = "handle_event"

\* the strategy asked for a BUY or SELL of a positive notional and the risk
\* gate said no
RiskRejected ==
    /\ LastEvent
    /\ last.kind = "signal"
    /\ last.action \in {"BUY", "SELL"}
    /\ last.amount_usdc > 0
    /\ ~last.allow

\* C15: when check_order returns false for a BUY or SELL signal, the tick
\* writes no Trade record and creates, changes or deletes no position.
C15_RiskRejectedNoEffect ==
    RiskRejected => (trades = last.pre_trades /\ positions = last.pre)

C15_Witness ==
    /\ RiskRejected
    /\ last.action = "SELL"
    /\ ~NoPosition(positions, last.asset_id)
    /\ trades # <<>>

---------------------------------------------------------------------------
(* BacktestEngine: the in-memory ledger *)

Held(btpos, a) == a \in DOMAIN btpos

\* positions[asset_id] = ...
Put(btpos, a, p) ==
    [x \in DOMAIN btpos \cup {a} |-> IF x = a THEN p ELSE btpos[x]]

BtPosition(size, avg) == [size_usdc |-> size, average_price |-> avg]

\* the order is filled whatever the capital
BtProcessBuyOnCredit(a, exec_price, amount, cap, btpos) ==
    IF ~Held(btpos, a)
    THEN [result |-> "ok", capital |-> cap - amount,
          positions |-> Put(btpos, a, BtPosition(amount, exec_price)),
          amount_usdc |-> amount]
    ELSE LET pos == btpos[a]
             total_usdc == Round6(pos.size_usdc + amount)
         IN  IF total_usdc = 0
             THEN [result |-> "raised", capital |-> cap, positions |-> btpos,
                   amount_usdc |-> 0]
             ELSE [result |-> "ok", capital |-> cap - amount,
                   positions |->
                       Put(btpos, a,
                           BtPosition(total_usdc,
                               RoundDiv6(pos.average_price * pos.size_usdc
                                             + exec_price * amount,
                                         total_usdc))),
                   amount_usdc |-> amount]

\* _process_buy: "none" is the None it returns, "raised" the
\* ZeroDivisionError of a total that rounds to 0
BtProcessBuy(a, exec_price, amount, cap, btpos) ==
    IF amount > cap
    THEN [result |-> "none", capital |-> cap, positions |-> btpos,
          amount_usdc |-> 0]
    ELSE IF ~Held(btpos, a)
    THEN [result |-> "ok", capital |-> cap - amount,
          positions |-> Put(btpos, a, BtPosition(amount, exec_price)),
          amount_usdc |-> amount]
    ELSE LET pos == btpos[a]
             total_usdc == Round6(pos.size_usdc + amount)
         IN  IF total_usdc = 0
             THEN [result |-> "raised", capital |-> cap, positions |-> btpos,
                   amount_usdc |-> 0]
             ELSE [result |-> "ok", capital |-> cap - amount,
                   positions |->
                       Put(btpos, a,
                           BtPosition(total_usdc,
                               RoundDiv6(pos.average_price * pos.size_usdc
                                             + exec_price * amount,
                                         total_usdc))),
                   amount_usdc |-> amount]

\* the capital is credited the notional asked for, not the notional sold
BtProcessSellUncapped(a, exec_price, amount, cap, btpos) ==
    IF ~Held(btpos, a) \/ (Held(btpos, a) /\ btpos[a].size_usdc <= 0)
    THEN [result |-> "none", capital |-> cap, positions |-> btpos,
          sell_usdc |-> 0, realized_pnl |-> 0]
    ELSE LET pos == btpos[a]
             sell_usdc == Round6(Min(amount, pos.size_usdc))
             realized_pnl ==
                 IF pos.average_price > 0
                 THEN RoundDiv6(sell_usdc * (exec_price - pos.average_price),
                                pos.average_price)
                 ELSE 0
             remaining == Round6(pos.size_usdc - sell_usdc)
         IN  [result |-> "ok",
              capital |-> cap + amount + realized_pnl,
              positions |->
                  IF remaining <= CloseThreshold
                  THEN Put(btpos, a, BtPosition(0, 0))
                  ELSE Put(btpos, a, BtPosition(remaining,
                                                pos.average_price)),
              sell_usdc |-> sell_usdc, realized_pnl |-> realized_pnl]

\* _process_sell
BtProcessSell(a, exec_price, amount, cap, btpos) ==
    IF ~Held(btpos, a) \/ (Held(btpos, a) /\ btpos[a].size_usdc <= 0)
    THEN [result |-> "none", capital |-> cap, positions |-> btpos,
          sell_usdc |-> 0, realized_pnl |-> 0]
    ELSE LET pos == btpos[a]
             sell_usdc == Round6(Min(amount, pos.size_usdc))
             realized_pnl ==
                 IF pos.average_price > 0
                 THEN RoundDiv6(sell_usdc * (exec_price - pos.average_price),
                                pos.average_price)
                 ELSE 0
             remaining == Round6(pos.size_usdc - sell_usdc)
         IN  [result |-> "ok",
              capital |-> cap + sell_usdc + realized_pnl,
              positions |->
                  IF remaining <= CloseThreshold
                  THEN Put(btpos, a, BtPosition(0, 0))
                  ELSE Put(btpos, a, BtPosition(remaining,
                                                pos.average_price)),
              sell_usdc |-> sell_usdc, realized_pnl |-> realized_pnl]

---------------------------------------------------------------------------
(* The same fills applied to the stored ledger and to the in-memory one *)

\* capital that covers every BUY of a behaviour
ParityCapital == (MaxFills + 1) * 3000 * Micro

\* fill prices as the pricing functions return them: 0.00004, 0.00006
FillPrices == {40 * Micro, 60 * Micro}

\* _process_buy or _process_sell, by the action of the fill
BtFill(a, action, price, amount, cap, btpos) ==
    IF action = "BUY"
    THEN LET r == BtProcessBuy(a, price, amount, cap, btpos)
         IN  [result |-> r.result, capital |-> r.capital,
              positions |-> r.positions, realized_pnl |-> 0]
    ELSE LET r == BtProcessSell(a, price, amount, cap, btpos)
         IN  [result |-> r.result, capital |-> r.capital,
              positions |-> r.positions, realized_pnl |-> r.realized_pnl]

ParityFill(a, action, price, amount) ==
    /\ nfills < MaxFills
    /\ bt_state = "running"
    /\ \E res \in {UpdateAfterTrade(positions, a, action, price, amount)},
          b \in {BtFill(a, action, price, amount, capital,
                        bt_positions)} :
           /\ positions' = res.positions
           /\ ghost' = [ghost EXCEPT
                  ![a] = GhostAfter(ghost[a], res.positions, a, action,
                                    price, amount)]
           /\ capital' = b.capital
           /\ bt_positions' = b.positions
           /\ bt_state' = IF b.result = "raised" THEN "raised" ELSE "running"
           /\ last' = [op |-> "fill_both", asset_id |-> a,
                       action |-> action, price |-> price,
                       amount_usdc |-> amount,
                       realized_pnl |-> res.realized_pnl,
                       bt_result |-> b.result,
                       bt_realized_pnl |-> b.realized_pnl,
                       pre |-> positions]
    /\ nfills' = nfills + 1
    /\ UNCHANGED <<trades, now, halted, halted_at, cb_enabled, bt_trades,
                   equity_curve, last_prices, nticks, nprocessed,
                   initial_capital, history_buffers, callervars,
                   price_history, monvars,
                   alertvars, wsvars,
                   max_total_position_usdc>>

ParityInit ==
    /\ positions = {}
    /\ ghost = [a \in Assets |-> Fresh]
    /\ nfills = 0
    /\ last = NoCall
    /\ trades = <<>>
    /\ price_history = <<>>
    /\ inbox = <<>>
    /\ tasks = <<>>
    /\ calls = <<>>
    /\ AlertStart
    /\ WsStart
    /\ max_total_position_usdc = MaxTotalPositionUsdc
    /\ now = 0
    /\ halted = FALSE
    /\ halted_at = NoneAt
    /\ cb_enabled = TRUE
    /\ RunStartWith(ParityCapital)

ParityNext ==
    \E a \in Assets, action \in Actions, price \in FillPrices,
       amount \in Amounts :
        ParityFill(a, action, price, amount)

SpecParity == ParityInit /\ [][ParityNext]_vars

---------------------------------------------------------------------------
(* Claims about live/backtest parity, checked under SpecParity *)

LiveOpen(a) == \E r \in Rows(positions, a) : r.size_usdc > 0

BtOpen(a) == Held(bt_positions, a) /\ bt_positions[a].size_usdc > 0

LastBoth == last.op = "fill_both"

\* the two ledgers agree on which assets are open and on their size and
\* average price
SameLedger ==
    \A a \in Assets :
        /\ LiveOpen(a) <=> BtOpen(a)
        /\ LiveOpen(a) /\ BtOpen(a) =>
               /\ GetPosition(positions, a).size_usdc
                      = bt_positions[a].size_usdc
               /\ GetPosition(positions, a).average_price
                      = bt_positions[a].average_price

\* C18: after every fill applied through both paths from empty ledgers the
\* two agree on each asset's open size and average price (open in one iff
\* open in the other) and on the realized P&L returned for each SELL, and
\* the backtest path has not raised.
C18_LedgerParity ==
    /\ bt_state = "running"
    /\ SameLedger
    /\ (LastBoth /\ last.action = "SELL") =>
           RatEq(last.realized_pnl, Rat(last.bt_realized_pnl, 1))


---------------------------------------------------------------------------
(* BacktestEngine.run: the tick loop *)

\* ticks of a run
MaxTicks == 3

\* slippage configuration of the engine: book prices, 5%
BtUseBookPrice == TRUE
BtSlippageBps == 500

\* tick.get("price") is None
NoPrice == NoQuote

\* tick.get("asset_id", "") of a tick without the key
NoAsset == ""

\* tick prices of a run: 0, 0.00005
RunPrices == {0, 50 * Micro}

\* notionals the strategy asks for: 0.001, all of the initial capital, more
RunAmounts == {1000 * Micro, InitialCapital, InitialCapital + 1000 * Micro}

\* what calculate_signal does on a tick: it raises, returns something that
\* is not a dict, or returns a signal
RunSignals ==
    {Signal(action, amount) : action \in Actions, amount \in RunAmounts}
    \cup {Signal("HOLD", 0),
          [kind |-> "raises", action |-> "HOLD", amount |-> 0],
          [kind |-> "not_a_dict", action |-> "HOLD", amount |-> 0]}

\* signal.get("reason", "") of the strategy's signals, and the reason of
\* the trades appended at the end of the run
SignalReason == ""
ForcedCloseReason == "forced close at the end of the backtest"

BtTrade(action, a, price, amount, pnl, reason) ==
    [action |-> action, asset_id |-> a, price |-> price,
     amount_usdc |-> amount, realized_pnl |-> pnl, reason |-> reason]

\* the whole units and the fraction of size * current / average, summed
\* over the positions that count
Valued(btpos) ==
    {a \in DOMAIN btpos :
        btpos[a].size_usdc > 0 /\ btpos[a].average_price > 0}

CurrentPrice(btpos, lp, a) ==
    IF a \in DOMAIN lp THEN lp[a] ELSE btpos[a].average_price

RECURSIVE SumWhole(_, _, _)
SumWhole(btpos, lp, S) ==
    IF S = {} THEN 0
    ELSE LET a == CHOOSE x \in S : TRUE
         IN  (btpos[a].size_usdc * CurrentPrice(btpos, lp, a))
                 \div btpos[a].average_price
             + SumWhole(btpos, lp, S \ {a})

RECURSIVE SumFrac(_, _, _)
SumFrac(btpos, lp, S) ==
    IF S = {} THEN Zero
    ELSE LET a == CHOOSE x \in S : TRUE
             f == Rat((btpos[a].size_usdc * CurrentPrice(btpos, lp, a))
                          % btpos[a].average_price,
                      btpos[a].average_price)
             g == SumFrac(btpos, lp, S \ {a})
         IN  Norm(Rat(f.n * g.d + g.n * f.d, f.d * g.d))

\* round(whole + frac, 6) for frac >= 0
RoundMixed6(whole, frac) ==
    LET w == whole + frac.n \div frac.d
        n == frac.n % frac.d
        q == w \div Micro
        r == w - q * Micro
        twice == 2 * (r * frac.d + n)
        m == Micro * frac.d
    IN  IF twice < m THEN q * Micro
        ELSE IF twice > m THEN (q + 1) * Micro
        ELSE IF q % 2 = 0 THEN q * Micro
        ELSE (q + 1) * Micro

\* the equity left as the float sum, whole units of it
CalcEquityUnrounded(cap, btpos, lp) ==
    cap + SumWhole(btpos, lp, Valued(btpos))

\* _calc_equity
CalcEquity(cap, btpos, lp) ==
    RoundMixed6(cap + SumWhole(btpos, lp, Valued(btpos)),
                SumFrac(btpos, lp, Valued(btpos)))

\* lines 107 and 127: action == "BUY" and amount > 0, then
\* action == "SELL" and amount > 0, raise TypeError when the action is one
\* of the two and the amount is None or a string
AmountNotComparable(sig) ==
    /\ sig.action \in {"BUY", "SELL"}
    /\ sig.kind \in {"null_amount", "string_amount"}

\* lines 107-144: the order of the signal against capital and positions
Traded(result, cap, btpos, tr) ==
    [result |-> result, capital |-> cap, positions |-> btpos, trades |-> tr]

\* a BUY is filled without looking at the capital
TradeOnCredit(cap, btpos, tr, a, price, best_bid, best_ask, sig) ==
    LET exec_price == BtCalcExecutionPrice(BtUseBookPrice, BtSlippageBps,
                                           sig.action, price, best_bid,
                                           best_ask)
        b == BtProcessBuyOnCredit(a, exec_price, sig.amount, cap, btpos)
        x == BtProcessSell(a, exec_price, sig.amount, cap, btpos)
    IN  IF AmountNotComparable(sig)
        THEN Traded("raised", cap, btpos, tr)
        ELSE IF sig.action = "BUY" /\ sig.amount > 0
        THEN IF b.result = "ok"
             THEN Traded("ok", b.capital, b.positions,
                         Append(tr, BtTrade("BUY", a, exec_price,
                                            b.amount_usdc, 0, SignalReason)))
             ELSE Traded(b.result, cap, btpos, tr)
        ELSE IF sig.action = "SELL" /\ sig.amount > 0
        THEN IF x.result = "ok"
             THEN Traded("ok", x.capital, x.positions,
                         Append(tr, BtTrade("SELL", a, exec_price,
                                            x.sell_usdc, x.realized_pnl,
                                            SignalReason)))
             ELSE Traded("none", cap, btpos, tr)
        ELSE Traded("hold", cap, btpos, tr)

Trade(cap, btpos, tr, a, price, best_bid, best_ask, sig) ==
    LET exec_price == BtCalcExecutionPrice(BtUseBookPrice, BtSlippageBps,
                                           sig.action, price, best_bid,
                                           best_ask)
        b == BtProcessBuy(a, exec_price, sig.amount, cap, btpos)
        x == BtProcessSell(a, exec_price, sig.amount, cap, btpos)
    IN  IF AmountNotComparable(sig)
        THEN Traded("raised", cap, btpos, tr)
        ELSE IF sig.action = "BUY" /\ sig.amount > 0
        THEN IF b.result = "ok"
             THEN Traded("ok", b.capital, b.positions,
                         Append(tr, BtTrade("BUY", a, exec_price,
                                            b.amount_usdc, 0, SignalReason)))
             ELSE Traded(b.result, cap, btpos, tr)
        ELSE IF sig.action = "SELL" /\ sig.amount > 0
        THEN IF x.result = "ok"
             THEN Traded("ok", x.capital, x.positions,
                         Append(tr, BtTrade("SELL", a, exec_price,
                                            x.sell_usdc, x.realized_pnl,
                                            SignalReason)))
             ELSE Traded("none", cap, btpos, tr)
        ELSE Traded("hold", cap, btpos, tr)

\* deque(maxlen=100), scaled to the ticks of a run
HistoryMaxLen == 2

\* a list that keeps every entry
DequeAppendUnbounded(buf, e) == Append(buf, e)

\* deque.append: the oldest entry leaves a full buffer
DequeAppend(buf, e) ==
    IF Len(buf) < HistoryMaxLen THEN Append(buf, e)
    ELSE Append(SubSeq(buf, 2, Len(buf)), e)

\* lines 80-86: the buffer of the asset, made on its first tick, gets the
\* tick's price
AppendHistory(hb, a, price) ==
    Put(hb, a, DequeAppend(IF a \in DOMAIN hb THEN hb[a] ELSE <<>>,
                           [price |-> price]))

RunLast(a, price, sig, result) ==
    [op |-> "run_tick", asset_id |-> a, price |-> price, kind |-> sig.kind,
     action |-> sig.action, amount_usdc |-> sig.amount, result |-> result,
     pre_capital |-> capital, pre_positions |-> bt_positions,
     pre_trades |-> bt_trades, pre_points |-> Len(equity_curve)]

\* the strategy is not called on a tick that is skipped
NotCalled == [kind |-> "not_called", action |-> "HOLD", amount |-> 0]

\* one iteration of the loop over ticks, lines 71-152
RunTick(a, price, best_bid, best_ask, sig) ==
    /\ bt_state = "running"
    /\ nticks < MaxTicks
    /\ nticks' = nticks + 1
    /\ IF price = NoPrice \/ a = NoAsset
       THEN /\ last' = RunLast(a, price, NotCalled, "skipped")
            /\ UNCHANGED <<capital, bt_positions, bt_trades, equity_curve,
                           last_prices, nprocessed, bt_state,
                           history_buffers>>
       ELSE /\ nprocessed' = nprocessed + 1
            /\ last_prices' = Put(last_prices, a, Float(price))
            /\ history_buffers' =
                   AppendHistory(history_buffers, a, Float(price))
            /\ IF sig.kind \in {"raises", "not_a_dict"}
               THEN /\ last' = RunLast(a, price, sig, "fault")
                    /\ UNCHANGED <<capital, bt_positions, bt_trades,
                                   equity_curve, bt_state>>
               ELSE \E t \in {Trade(capital, bt_positions, bt_trades, a,
                                    Float(price), best_bid, best_ask, sig)} :
                        /\ last' = RunLast(a, price, sig, t.result)
                        /\ capital' = t.capital
                        /\ bt_positions' = t.positions
                        /\ bt_trades' = t.trades
                        /\ IF t.result = "raised"
                           THEN /\ bt_state' = "raised"
                                /\ UNCHANGED equity_curve
                           ELSE /\ bt_state' = "running"
                                /\ equity_curve' =
                                       Append(equity_curve,
                                           [equity |->
                                                CalcEquity(t.capital,
                                                    t.positions,
                                                    last_prices'),
                                            capital |-> t.capital])
    /\ UNCHANGED <<positions, ghost, nfills, trades, now, halted, halted_at,
                   cb_enabled, initial_capital, price_history, monvars,
                   alertvars, wsvars,
                   max_total_position_usdc>>

\* the place of a key in the dict: keys are inserted by the first BUY of
\* the asset, which also appends a trade
FirstBuy(tr, a) ==
    CHOOSE i \in DOMAIN tr :
        /\ tr[i].action = "BUY" /\ tr[i].asset_id = a
        /\ \A j \in 1..(i - 1) :
               ~(tr[j].action = "BUY" /\ tr[j].asset_id = a)

\* lines 154-173: the positions left open are sold at the last price, in
\* the order of the dict's keys
RECURSIVE ForceClose(_, _, _, _, _, _)
ForceClose(cap, btpos, tr, lp, order, S) ==
    IF S = {} THEN Traded("ok", cap, btpos, tr)
    ELSE LET a == CHOOSE x \in S :
                      \A y \in S : FirstBuy(order, x) <= FirstBuy(order, y)
             pos == btpos[a]
             close_price == CurrentPrice(btpos, lp, a)
             x == BtProcessSell(a, close_price, pos.size_usdc, cap, btpos)
         IN  IF pos.size_usdc <= 0 \/ x.result # "ok"
             THEN ForceClose(cap, btpos, tr, lp, order, S \ {a})
             ELSE ForceClose(x.capital, x.positions,
                             Append(tr, BtTrade("SELL", a, close_price,
                                                x.sell_usdc, x.realized_pnl,
                                                ForcedCloseReason)),
                             lp, order, S \ {a})

\* the end of run: forced close and return
RunReturn ==
    /\ bt_state = "running"
    /\ \E t \in {ForceClose(capital, bt_positions, bt_trades, last_prices,
                             bt_trades, DOMAIN bt_positions)} :
           /\ capital' = t.capital
           /\ bt_positions' = t.positions
           /\ bt_trades' = t.trades
    /\ bt_state' = "returned"
    /\ last' = [op |-> "run_return", pre_capital |-> capital,
                pre_positions |-> bt_positions, pre_trades |-> bt_trades]
    /\ UNCHANGED <<equity_curve, last_prices, nticks, nprocessed,
                   history_buffers>>
    /\ UNCHANGED <<positions, ghost, nfills, trades, now, halted, halted_at,
                   cb_enabled, initial_capital, price_history, monvars,
                   alertvars, wsvars,
                   max_total_position_usdc>>

RunNext ==
    \/ \E a \in Assets \cup {NoAsset}, price \in RunPrices \cup {NoPrice},
          book \in TickBooks, sig \in RunSignals :
           RunTick(a, price, book.best_bid, book.best_ask, sig)
           /\ UNCHANGED callervars
    \/ RunReturn /\ UNCHANGED callervars

SpecRun == LedgerInit /\ [][RunNext]_vars

---------------------------------------------------------------------------
(* Claims about the backtest run, checked under SpecRun *)

LastTick == last.op = "run_tick"

\* C19: the equity curve has one point per tick that has a price and a
\* non-empty asset_id, also for the ticks on which the strategy raises or
\* returns a non-mapping; a tick without price or asset_id adds none.
C19_OnePointPerProcessedTick ==
    bt_state # "raised" => Len(equity_curve) = nprocessed

\* C20: capital is never negative; a BUY of more than the available capital
\* is skipped with capital, positions and trades unchanged, and a BUY of
\* the available capital exactly is executed.
C20_CapitalNeverNegative ==
    /\ capital >= 0
    /\ (LastTick /\ last.result # "skipped" /\ last.kind = "signal"
        /\ last.action = "BUY") =>
           /\ last.amount_usdc > last.pre_capital =>
                  /\ capital = last.pre_capital
                  /\ bt_positions = last.pre_positions
                  /\ bt_trades = last.pre_trades
           /\ (last.amount_usdc = last.pre_capital /\ bt_state = "running")
                  => /\ capital = 0
                     /\ Len(bt_trades) = Len(last.pre_trades) + 1
                     /\ BtOpen(last.asset_id)

C20_Witness ==
    /\ LastTick
    /\ last.kind = "signal"
    /\ last.action = "BUY"
    /\ last.result = "none"
    /\ last.amount_usdc > last.pre_capital
    /\ last.pre_capital > 0
    /\ last.pre_trades # <<>>

C20_WitnessAllIn ==
    /\ LastTick
    /\ last.action = "BUY"
    /\ last.amount_usdc = last.pre_capital
    /\ capital = 0

C20_WitnessClosed ==
    /\ bt_state = "returned"
    /\ Len(bt_trades) = Len(last.pre_trades) + 2
    /\ capital < InitialCapital

C20_WitnessSellAtZero ==
    /\ LastTick
    /\ last.action = "SELL"
    /\ last.result = "ok"
    /\ capital = last.pre_capital

---------------------------------------------------------------------------
(* The end of a run whose strategy trades notionals with more than 6
   decimals *)

\* notionals the strategy asks for: 0.001, 0.0010004
CloseAmounts == {1000 * Micro, 1000 * Micro + 4}

CloseSignals ==
    {Signal(action, amount) : action \in {"BUY", "SELL"},
                              amount \in CloseAmounts}

CloseNext ==
    \/ \E a \in Assets, price \in RunPrices, book \in TickBooks,
          sig \in CloseSignals :
           RunTick(a, price, book.best_bid, book.best_ask, sig)
           /\ UNCHANGED callervars
    \/ RunReturn /\ UNCHANGED callervars

SpecClose == LedgerInit /\ [][CloseNext]_vars

\* lines 180-187: the positions of the result are those with a size
ResultPositions(btpos) == {a \in DOMAIN btpos : btpos[a].size_usdc > 0}

Returned == bt_state = "returned" /\ last.op = "run_return"

\* the assets open after the last tick and the trades appended after it
OpenAtEnd == ResultPositions(last.pre_positions)
Synthetic == SubSeq(bt_trades, Len(last.pre_trades) + 1, Len(bt_trades))

ForcedSell(tr, a) ==
    /\ tr.action = "SELL"
    /\ tr.asset_id = a
    /\ tr.reason = ForcedCloseReason
    /\ tr.price = last_prices[a]
    /\ tr.amount_usdc = last.pre_positions[a].size_usdc

\* C21: when run returns, the positions of the result are empty, and the
\* trade list ends with exactly one synthetic SELL for every asset open
\* after the last tick, at the asset's last tick price, for the whole
\* remaining size, with the forced-close reason; an asset that is not open
\* gets none.
C21_ForcedClose ==
    Returned =>
        /\ ResultPositions(bt_positions) = {}
        /\ SubSeq(bt_trades, 1, Len(last.pre_trades)) = last.pre_trades
        /\ Len(Synthetic) = Cardinality(OpenAtEnd)
        /\ \A a \in OpenAtEnd :
               \E i \in DOMAIN Synthetic : ForcedSell(Synthetic[i], a)

\* the same, with the size of the synthetic SELL rounded to 6 decimals
C21_ForcedCloseRounded ==
    Returned =>
        /\ ResultPositions(bt_positions) = {}
        /\ SubSeq(bt_trades, 1, Len(last.pre_trades)) = last.pre_trades
        /\ Len(Synthetic) = Cardinality(OpenAtEnd)
        /\ \A a \in OpenAtEnd :
               \E i \in DOMAIN Synthetic :
                   /\ Synthetic[i].action = "SELL"
                   /\ Synthetic[i].asset_id = a
                   /\ Synthetic[i].reason = ForcedCloseReason
                   /\ Synthetic[i].price = last_prices[a]
                   /\ Synthetic[i].amount_usdc =
                          Round6(last.pre_positions[a].size_usdc)

C21_WitnessTwoClosed ==
    /\ Returned
    /\ Cardinality(OpenAtEnd) = 2
    /\ Len(Synthetic) = 2

C21_WitnessOffGrid ==
    /\ Returned
    /\ \E a \in OpenAtEnd :
           Round6(last.pre_positions[a].size_usdc)
               # last.pre_positions[a].size_usdc

---------------------------------------------------------------------------
(* A run whose strategy returns HOLD on every tick *)

\* initial_capital: 0, 0.004, 0.0040004
HoldCapitals == {0, InitialCapital, InitialCapital + 4}

\* {"action": "HOLD"}: signal.get("amount", 0) is 0
HoldSignal == Signal("HOLD", 0)

HoldInit ==
    /\ positions = {}
    /\ ghost = [a \in Assets |-> Fresh]
    /\ nfills = 0
    /\ last = NoCall
    /\ trades = <<>>
    /\ price_history = <<>>
    /\ inbox = <<>>
    /\ tasks = <<>>
    /\ calls = <<>>
    /\ AlertStart
    /\ WsStart
    /\ max_total_position_usdc = MaxTotalPositionUsdc
    /\ now = 0
    /\ halted = FALSE
    /\ halted_at = NoneAt
    /\ cb_enabled = TRUE
    /\ \E ic \in HoldCapitals : RunStartWith(ic)

HoldNext ==
    \/ \E a \in Assets \cup {NoAsset}, price \in RunPrices \cup {NoPrice},
          book \in TickBooks :
           RunTick(a, price, book.best_bid, book.best_ask, HoldSignal)
           /\ UNCHANGED callervars
    \/ RunReturn /\ UNCHANGED callervars

SpecHold == HoldInit /\ [][HoldNext]_vars

\* C22: with a strategy that returns HOLD on every tick, whatever the
\* ticks, the capital stays the initial capital, there is no trade and no
\* position, and every equity point equals the initial capital.
C22_HoldConservation ==
    /\ capital = initial_capital
    /\ bt_trades = <<>>
    /\ ResultPositions(bt_positions) = {}
    /\ \A i \in DOMAIN equity_curve :
           equity_curve[i].equity = initial_capital

\* the same, every equity point being the initial capital rounded to 6
\* decimals
C22_HoldConservationRounded ==
    /\ capital = initial_capital
    /\ bt_trades = <<>>
    /\ ResultPositions(bt_positions) = {}
    /\ \A i \in DOMAIN equity_curve :
           /\ equity_curve[i].equity = Round6(initial_capital)
           /\ equity_curve[i].capital = initial_capital

C22_Witness ==
    /\ Returned
    /\ nticks = MaxTicks
    /\ Len(equity_curve) = 2
    /\ DOMAIN last_prices = Assets
    /\ Round6(initial_capital) # initial_capital

C22_WitnessOnGrid ==
    /\ Returned
    /\ Len(equity_curve) = MaxTicks
    /\ initial_capital = InitialCapital

---------------------------------------------------------------------------
(* run called twice with the same ticks and a pure strategy *)

\* pos.side if pos else None
NoSide == "None"

\* tick.get("market", "") of a tick without the key
NoMarket == ""

\* BacktestEngine._build_signal_data: the tick's timestamp is handed on
\* untouched and is left out
BtBuildSignalData(market, a, price, best_bid, best_ask, btpos, hb) ==
    [price |-> price,
     market_id |-> market,
     history |-> IF a \in DOMAIN hb THEN hb[a] ELSE <<>>,
     position_usdc |-> IF a \in DOMAIN btpos THEN btpos[a].size_usdc ELSE 0,
     side |-> IF a \in DOMAIN btpos THEN "BUY" ELSE NoSide,
     best_bid |-> best_bid,
     best_ask |-> best_ask]

\* the ticks of the list: one asset or the other, a price or none, with
\* the book's quotes
RerunPrices == {50 * Micro, NoPrice}
RerunBook == [best_bid |-> 40 * Micro, best_ask |-> 60 * Micro]

\* what the strategy answers
RerunSignals ==
    {Signal("BUY", 1000 * Micro), Signal("SELL", 1000 * Micro),
     Signal("HOLD", 0), [kind |-> "raises", action |-> "HOLD", amount |-> 0]}

\* the mapping the strategy is called with on this tick: the buffer
\* already holds the tick
SignalDataNow(a, price) ==
    BtBuildSignalData(NoMarket, a, Float(price), RerunBook.best_bid,
                      RerunBook.best_ask, bt_positions,
                      AppendHistory(history_buffers, a, Float(price)))

Skipped(a, price) == price = NoPrice \/ a = NoAsset

\* the first call takes a tick from the list; the caller keeps the list
RecordTick(a, price, sig) ==
    /\ run_no = 1
    /\ Skipped(a, price) => sig = HoldSignal
    /\ tape' = Append(tape,
                      [asset_id |-> a, price |-> price,
                       data |-> IF Skipped(a, price) THEN NoResult
                                ELSE SignalDataNow(a, price),
                       signal |-> sig])
    /\ RunTick(a, price, RerunBook.best_bid, RerunBook.best_ask, sig)
    /\ UNCHANGED <<first, run_no>>

\* lines 175-188: the dict that run returns
Result(cap, btpos, tr, curve) ==
    [returned |-> TRUE,
     trades |-> tr,
     equity_curve |-> curve,
     final_capital |-> cap,
     initial_capital |-> initial_capital,
     positions |-> [a \in ResultPositions(btpos) |-> btpos[a]]]

FirstReturn ==
    /\ run_no = 1
    /\ RunReturn
    /\ first' = Result(capital', bt_positions', bt_trades', equity_curve')
    /\ UNCHANGED <<tape, run_no>>

\* the second call starts with the capital and the buffers the first call
\* has left
RunAgainLeaking ==
    /\ run_no = 1
    /\ bt_state = "returned"
    /\ run_no' = 2
    /\ bt_positions' = EmptyDict
    /\ bt_trades' = <<>>
    /\ equity_curve' = <<>>
    /\ last_prices' = EmptyDict
    /\ nticks' = 0
    /\ nprocessed' = 0
    /\ bt_state' = "running"
    /\ last' = [op |-> "run_start"]
    /\ UNCHANGED <<positions, ghost, nfills, trades, now, halted, halted_at,
                   cb_enabled, initial_capital, tape, first, capital,
                   history_buffers, price_history, monvars,
                   alertvars, wsvars,
                   max_total_position_usdc>>

\* lines 64-69: run is called again on the same engine
RunAgain ==
    /\ run_no = 1
    /\ bt_state = "returned"
    /\ run_no' = 2
    /\ capital' = initial_capital
    /\ bt_positions' = EmptyDict
    /\ bt_trades' = <<>>
    /\ equity_curve' = <<>>
    /\ history_buffers' = EmptyDict
    /\ last_prices' = EmptyDict
    /\ nticks' = 0
    /\ nprocessed' = 0
    /\ bt_state' = "running"
    /\ last' = [op |-> "run_start"]
    /\ UNCHANGED <<positions, ghost, nfills, trades, now, halted, halted_at,
                   cb_enabled, initial_capital, tape, first, price_history,
                   monvars,
                   alertvars, wsvars,
                   max_total_position_usdc>>

\* the second call takes the same tick; the strategy, being pure, answers
\* as it did the first time when it is called with the same mapping, and
\* anything when the mapping differs
ReplayTick(sig) ==
    /\ run_no = 2
    /\ nticks < Len(tape)
    /\ \E e \in {tape[nticks + 1]} :
           /\ (Skipped(e.asset_id, e.price)
               \/ e.data = SignalDataNow(e.asset_id, e.price))
                  => sig = e.signal
           /\ RunTick(e.asset_id, e.price, RerunBook.best_bid,
                      RerunBook.best_ask, sig)
    /\ UNCHANGED callervars

SecondReturn ==
    /\ run_no = 2
    /\ nticks = Len(tape)
    /\ RunReturn
    /\ UNCHANGED callervars

RerunNext ==
    \/ \E a \in Assets, price \in RerunPrices, sig \in RerunSignals :
           RecordTick(a, price, sig)
    \/ FirstReturn
    \/ RunAgain
    \/ \E sig \in RerunSignals : ReplayTick(sig)
    \/ SecondReturn
    \/ Tick

SpecRerun == LedgerInit /\ [][RerunNext]_vars

SecondReturned == run_no = 2 /\ bt_state = "returned"

\* C23: the second call of run on the same ticks with a pure strategy
\* returns the trades, equity curve, final capital and positions that the
\* first call returned; it starts from the locals of a fresh engine, and
\* the clock, which moves between and during the calls, does not enter
\* the result.
C23_Rerun ==
    /\ SecondReturned =>
           Result(capital, bt_positions, bt_trades, equity_curve) = first
    /\ (run_no = 2 /\ nticks = 0) =>
           /\ capital = initial_capital
           /\ bt_positions = EmptyDict
           /\ bt_trades = <<>>
           /\ equity_curve = <<>>
           /\ history_buffers = EmptyDict
           /\ last_prices = EmptyDict
    /\ initial_capital = InitialCapital

C23_Witness ==
    /\ SecondReturned
    /\ Len(tape) = MaxTicks
    /\ Len(first.trades) >= 2
    /\ first.final_capital # initial_capital
    /\ now > 0

C23_WitnessOpenAtEnd ==
    /\ SecondReturned
    /\ first.trades # <<>>
    /\ first.trades[Len(first.trades)].reason = ForcedCloseReason
    /\ Len(first.equity_curve) < Len(tape)

---------------------------------------------------------------------------
(* Strategy faults in the live path, checked under SpecHandler *)

\* the strategy raised, or answered with a non-dict, an action outside
\* BUY, SELL, HOLD, or a BUY or SELL whose amount is missing, not a number
\* or not positive
StrategyFault ==
    /\ LastEvent
    /\ \/ last.kind \in {"raises", "not_a_dict"}
       \/ last.action \notin {"BUY", "SELL", "HOLD"}
       \/ /\ last.action \in {"BUY", "SELL"}
          /\ \/ last.kind \in {"missing_amount", "null_amount",
                                "string_amount"}
             \/ last.amount_usdc <= 0

C24_WitnessUnknownAction ==
    /\ StrategyFault
    /\ last.action = UnknownAction
    /\ last.amount_usdc > 0
    /\ ~NoPosition(positions, last.asset_id)

C24_WitnessNegative ==
    /\ StrategyFault
    /\ last.kind = "signal"
    /\ last.action = "BUY"
    /\ last.amount_usdc < 0

---------------------------------------------------------------------------
(* A run whose strategy answers with faults among its orders *)

FaultRunSignals ==
    {Signal("BUY", 1000 * Micro), Signal("SELL", 1000 * Micro)} \cup Faults

FaultRunNext ==
    \/ \E a \in Assets \cup {NoAsset}, price \in RerunPrices,
          sig \in FaultRunSignals :
           RunTick(a, price, RerunBook.best_bid, RerunBook.best_ask, sig)
           /\ UNCHANGED callervars
    \/ RunReturn /\ UNCHANGED callervars

SpecFaultRun == LedgerInit /\ [][FaultRunNext]_vars

\* the strategy was called on the last tick and raised, or answered with
\* a non-dict, an unknown action, or a BUY or SELL whose amount is
\* missing, None, not a number or not positive
BtStrategyFault ==
    /\ LastTick
    /\ last.result # "skipped"
    /\ \/ last.kind \in {"raises", "not_a_dict"}
       \/ last.action \notin {"BUY", "SELL", "HOLD"}
       \/ /\ last.action \in {"BUY", "SELL"}
          /\ \/ last.kind \in {"missing_amount", "null_amount",
                                "string_amount"}
             \/ last.amount_usdc <= 0

\* C25: a tick on which the strategy faults leaves capital, positions and
\* trades as they were and the run goes on to the next tick.
C25_BacktestFaultIsHold ==
    BtStrategyFault =>
        /\ bt_state = "running"
        /\ capital = last.pre_capital
        /\ bt_positions = last.pre_positions
        /\ bt_trades = last.pre_trades

\* the same for the faults other than a None or string amount
C25_BacktestFaultIsHoldComparable ==
    (BtStrategyFault /\ last.kind \notin {"null_amount", "string_amount"})
        => /\ bt_state = "running"
           /\ capital = last.pre_capital
           /\ bt_positions = last.pre_positions
           /\ bt_trades = last.pre_trades

C25_WitnessAborted ==
    /\ BtStrategyFault
    /\ last.kind = "string_amount"
    /\ bt_state = "raised"
    /\ last.pre_trades # <<>>

---------------------------------------------------------------------------
(* The Signal Input of the two paths for the same ticks and fills *)

\* tick.get("market"): both assets are tokens of the market m1
Markets == {"m1", NoMarket}

\* get_price_history(market, minutes=30), scaled to the clock of the model
HistoryMinutes == 2

\* DatabaseManager.save_price: price and timestamp are stored as given
SavePrice(ph, market, a, price, t) ==
    Append(ph, [asset_id |-> a, market |-> market, price |-> price,
                timestamp |-> t])

RECURSIVE SelectRows(_, _, _)
SelectRows(ph, market, since) ==
    IF ph = <<>> THEN <<>>
    ELSE IF Head(ph).market = market /\ Head(ph).timestamp >= since
    THEN <<Head(ph)>> \o SelectRows(Tail(ph), market, since)
    ELSE SelectRows(Tail(ph), market, since)

\* DatabaseManager.get_price_history: the rows of the market of the last
\* minutes, by timestamp; rows are inserted in the order of their
\* timestamps
GetPriceHistory(ph, market, minutes, t) == SelectRows(ph, market, t - minutes)

\* StrategyHandler._build_signal_data; the tick's timestamp is handed on
\* untouched and is left out
LiveBuildSignalData(market, a, price, best_bid, best_ask, pos, ph, t) ==
    [price |-> price,
     market_id |-> market,
     history |-> IF market # NoMarket
                 THEN [i \in DOMAIN GetPriceHistory(ph, market,
                                                    HistoryMinutes, t) |->
                          [price |-> GetPriceHistory(ph, market,
                                         HistoryMinutes, t)[i].price]]
                 ELSE <<>>,
     position_usdc |-> IF NoPosition(pos, a) THEN 0
                       ELSE GetPosition(pos, a).size_usdc,
     side |-> IF NoPosition(pos, a) THEN NoSide ELSE "BUY",
     best_bid |-> best_bid,
     best_ask |-> best_ask]

\* one tick through both paths: live, the price is stored and the
\* strategy handler builds the mapping from the store; in the backtest the
\* tick goes to the asset's buffer and the mapping is built from it
InputTick(market, a, price) ==
    /\ nticks < MaxTicks
    /\ bt_state = "running"
    /\ nticks' = nticks + 1
    /\ price_history' = SavePrice(price_history, market, a, Float(price), now)
    /\ history_buffers' = AppendHistory(history_buffers, a, Float(price))
    /\ last' = [op |-> "signal_input", asset_id |-> a, market |-> market,
                live |-> LiveBuildSignalData(market, a, Float(price),
                             RerunBook.best_bid, RerunBook.best_ask,
                             positions, price_history', now),
                backtest |-> BtBuildSignalData(market, a, Float(price),
                                 RerunBook.best_bid, RerunBook.best_ask,
                                 bt_positions, history_buffers')]
    /\ UNCHANGED <<positions, ghost, nfills, trades, now, halted, halted_at,
                   cb_enabled, capital, bt_positions, bt_trades,
                   equity_curve, last_prices, nprocessed, bt_state,
                   initial_capital, callervars, monvars,
                   alertvars, wsvars,
                   max_total_position_usdc>>

InputNext ==
    \/ \E market \in Markets, a \in Assets, price \in TickPrices :
           InputTick(market, a, price)
    \/ \E action \in Actions, amount \in CloseAmounts :
           ParityFill("a1", action, 50 * Micro, amount)
    \/ Tick

SpecInput == ParityInit /\ [][InputNext]_vars

LastInput == last.op = "signal_input"

\* C26: for the same ticks and fills the two paths build the same Signal
\* Input: the same price, market, position notional, side, quotes and the
\* same history.
C26_SignalInputParity == LastInput => last.live = last.backtest

\* the fields the two paths copy from the tick are the same
C26_SameTickFields ==
    LastInput =>
        /\ last.live.price = last.backtest.price
        /\ last.live.market_id = last.backtest.market_id
        /\ last.live.best_bid = last.backtest.best_bid
        /\ last.live.best_ask = last.backtest.best_ask

C26_WitnessHistory ==
    /\ LastInput
    /\ last.live.history # last.backtest.history
    /\ last.market # NoMarket
    /\ last.live.position_usdc = last.backtest.position_usdc

C26_WitnessSide ==
    /\ LastInput
    /\ last.live.history = last.backtest.history
    /\ last.live.side # last.backtest.side

C26_WitnessNotional ==
    /\ LastInput
    /\ last.live.history = last.backtest.history
    /\ last.live.position_usdc # last.backtest.position_usdc

C26_WitnessSame ==
    /\ LastInput
    /\ last.live = last.backtest
    /\ Len(last.live.history) = 2
    /\ last.live.position_usdc > 0

---------------------------------------------------------------------------
(* WebSocketClient.listen and PriceMonitor: messages, their price changes
   and the registered handlers *)

\* messages the receive loop reads
MaxMessages == 2

\* price changes of a message
MaxChanges == 2

\* PriceMonitor._handlers, in the order of add_handler
Handlers == <<"recorder", "strategy">>

\* a price change of a message: of an asset, or without asset_id
Changes == {[asset_id |-> "a1"], [asset_id |-> NoAsset]}

\* a message: the price changes of its price_changes list
Messages == UNION {[1..n -> Changes] : n \in 1..MaxChanges}

\* _handle_price_change, lines 131-133: a change without asset_id is not
\* dispatched
Dispatched(change) == change.asset_id # NoAsset

\* the next change of the message from e on that is dispatched, or one
\* past the end
RECURSIVE NextDispatched(_, _)
NextDispatched(msg, e) ==
    IF e > Len(msg) THEN e
    ELSE IF Dispatched(msg[e]) THEN e
    ELSE NextDispatched(msg, e + 1)

\* a call of on_message: the message, its number, the change and the
\* handler it is at, and whether that handler is running
Task(k, msg, e, h, running) ==
    [k |-> k, msg |-> msg, e |-> e, h |-> h, running |-> running]

Finished(task) == task.e > Len(task.msg)

\* an exception of a handler leaves _notify_handlers and ends the message
AfterHandlerPropagating(task, raised) ==
    IF raised
    THEN Task(task.k, task.msg, Len(task.msg) + 1, 1, FALSE)
    ELSE IF task.h < Len(Handlers)
    THEN Task(task.k, task.msg, task.e, task.h + 1, FALSE)
    ELSE Task(task.k, task.msg, NextDispatched(task.msg, task.e + 1), 1,
              FALSE)

\* _notify_handlers, lines 38-42: whether the handler returned or raised,
\* the loop goes to the next handler, and after the last one to the next
\* price change
AfterHandler(task, raised) ==
    IF task.h < Len(Handlers)
    THEN Task(task.k, task.msg, task.e, task.h + 1, FALSE)
    ELSE Task(task.k, task.msg, NextDispatched(task.msg, task.e + 1), 1,
              FALSE)

\* the loop reads on while on_message is running
CanReceiveAlways(ts) == TRUE

\* listen, line 123: await self.on_message(data)
CanReceive(ts) == ts = <<>>

Without(ts, i) == SubSeq(ts, 1, i - 1) \o SubSeq(ts, i + 1, Len(ts))

\* on_message has returned when the last change is done
Settle(ts, i, task) ==
    IF Finished(task) THEN Without(ts, i) ELSE [ts EXCEPT ![i] = task]

CallEntry(task, what) ==
    [k |-> task.k, e |-> task.e, handler |-> Handlers[task.h],
     what |-> what]

\* listen, lines 114-123: a message is received and on_message is called
Recv(msg) ==
    /\ Len(inbox) < MaxMessages
    /\ CanReceive(tasks)
    /\ inbox' = Append(inbox, msg)
    /\ \E task \in {Task(Len(inbox) + 1, msg, NextDispatched(msg, 1), 1,
                          FALSE)} :
           tasks' = IF Finished(task) THEN tasks ELSE Append(tasks, task)
    /\ last' = [op |-> "recv"]
    /\ UNCHANGED calls

\* _notify_handlers, line 40: the handler is called
HandlerBegin(i) ==
    /\ ~tasks[i].running
    /\ tasks' = [tasks EXCEPT ![i].running = TRUE]
    /\ calls' = Append(calls, CallEntry(tasks[i], "begin"))
    /\ last' = [op |-> "handler_begin"]
    /\ UNCHANGED inbox

\* the handler, its writes done, returns or raises
HandlerEnd(i, raised) ==
    /\ tasks[i].running
    /\ tasks' = Settle(tasks, i, AfterHandler(tasks[i], raised))
    /\ calls' = Append(calls, CallEntry(tasks[i],
                                         IF raised THEN "raise"
                                         ELSE "return"))
    /\ last' = [op |-> "handler_end"]
    /\ UNCHANGED inbox

MonitorFrame ==
    UNCHANGED <<positions, ghost, nfills, trades, now, halted, halted_at,
                cb_enabled, capital, bt_positions, bt_trades, equity_curve,
                last_prices, nticks, nprocessed, bt_state, initial_capital,
                history_buffers, callervars, price_history, alertvars,
                wsvars,
                   max_total_position_usdc>>

MonitorNext ==
    \/ \E msg \in Messages : Recv(msg) /\ MonitorFrame
    \/ \E i \in DOMAIN tasks : HandlerBegin(i) /\ MonitorFrame
    \/ \E i \in DOMAIN tasks, raised \in BOOLEAN :
           HandlerEnd(i, raised) /\ MonitorFrame

SpecMonitor == LedgerInit /\ [][MonitorNext]_vars

---------------------------------------------------------------------------
(* Claims about the fan-out, checked under SpecMonitor *)

IsBegin(c) == c.what = "begin"
IsRaise(c) == c.what = "raise"

Invocation(k, e, h) == [k |-> k, e |-> e, handler |-> Handlers[h]]

\* the invocations that are due for the changes e.. of message k
RECURSIVE DueOfMessage(_, _, _)
DueOfMessage(k, msg, e) ==
    IF e > Len(msg) THEN <<>>
    ELSE (IF Dispatched(msg[e])
          THEN [h \in 1..Len(Handlers) |-> Invocation(k, e, h)]
          ELSE <<>>)
         \o DueOfMessage(k, msg, e + 1)

\* the invocations that are due for the messages k.. received
RECURSIVE Due(_)
Due(k) ==
    IF k > Len(inbox) THEN <<>>
    ELSE DueOfMessage(k, inbox[k], 1) \o Due(k + 1)

\* the invocations made so far
Made ==
    [i \in DOMAIN SelectSeq(calls, IsBegin) |->
        [k |-> SelectSeq(calls, IsBegin)[i].k,
         e |-> SelectSeq(calls, IsBegin)[i].e,
         handler |-> SelectSeq(calls, IsBegin)[i].handler]]

\* C27: every handler is invoked exactly once for every dispatched event,
\* in registration order, whether or not an earlier handler raised: the
\* invocations made are at every moment the first of those due, and all
\* of them once on_price_update has returned, with the changes that
\* follow a raising handler in the same message among them.
C27_FanOut ==
    /\ Len(Made) <= Len(Due(1))
    /\ Made = SubSeq(Due(1), 1, Len(Made))
    /\ tasks = <<>> =>
           /\ Made = Due(1)
           /\ Len(calls) = 2 * Len(Made)

C27_Witness ==
    /\ tasks = <<>>
    /\ Len(inbox) = MaxMessages
    /\ Len(Made) = 2 * Len(Handlers)
    /\ IsRaise(calls[2])
    /\ Len(SelectSeq(calls, IsRaise)) >= 3
    /\ \E k \in DOMAIN inbox :
           Len(inbox[k]) = 2 /\ Dispatched(inbox[k][1])
           /\ Dispatched(inbox[k][2])

\* C28: the loop reads the next message only when on_message has
\* returned, and a handler runs to its end before the next one starts:
\* at most one call of on_message is in flight, every handler that has
\* begun ends before anything else is logged, and the log follows the
\* order of the messages and of their price changes.
C28_Sequential ==
    /\ Len(tasks) <= 1
    /\ \A i \in DOMAIN calls :
           /\ IsBegin(calls[i]) <=> i % 2 = 1
           /\ (IsBegin(calls[i]) /\ i < Len(calls)) =>
                  /\ calls[i + 1].k = calls[i].k
                  /\ calls[i + 1].e = calls[i].e
                  /\ calls[i + 1].handler = calls[i].handler
           /\ i < Len(calls) =>
                  \/ calls[i].k < calls[i + 1].k
                  \/ /\ calls[i].k = calls[i + 1].k
                     /\ calls[i].e <= calls[i + 1].e
    /\ (tasks # <<>> /\ calls # <<>>) =>
           tasks[1].k >= calls[Len(calls)].k

C28_Witness ==
    /\ Len(inbox) = MaxMessages
    /\ tasks # <<>>
    /\ tasks[1].running
    /\ tasks[1].k = MaxMessages
    /\ \E i \in DOMAIN calls : calls[i].k = 1 /\ calls[i].what = "raise"
    /\ \E i \in DOMAIN calls : calls[i].k = 1 /\ calls[i].e = 2

---------------------------------------------------------------------------
(* update_after_trade over a store whose writes can fail *)

\* lines 98-110: the SELL closes the position
ClosesPosition(pos, a, amount) ==
    LET p == GetPosition(pos, a)
    IN  p.size_usdc - SellUsdc(p, amount) <= CloseThreshold

\* the writes of a call: save_position or update_position for a BUY, none
\* for a SELL that is skipped, update_position and delete_position for a
\* full close, update_position for a partial close
PersistenceSteps(pos, a, action, amount) ==
    IF action = "BUY" THEN 1
    ELSE IF SellSkipped(pos, a) THEN 0
    ELSE IF ClosesPosition(pos, a, amount) THEN 2
    ELSE 1

\* the table after a call whose write number step raises: every write is
\* a session of its own (db_manager.py:27-38), so the failing write is
\* rolled back and the writes before it are committed
UpdateAfterTradeFailing(pos, a, action, price, amount, step) ==
    IF step = 2
    THEN UpdatePosition(pos, a, 0, Zero,
                        SellPnl(GetPosition(pos, a), price, amount))
    ELSE pos

FailingFill(a, action, price, amount, step) ==
    /\ nfills < MaxFills
    /\ step \in 1..PersistenceSteps(positions, a, action, amount)
    /\ positions' = UpdateAfterTradeFailing(positions, a, action, price,
                                            amount, step)
    /\ last' = [op |-> "update_after_trade_failed", asset_id |-> a,
                action |-> action, price |-> price, amount_usdc |-> amount,
                step |-> step, pre |-> positions]
    /\ nfills' = nfills + 1
    /\ UNCHANGED <<ghost, trades, now, halted, halted_at, cb_enabled>>
    /\ UNCHANGED btvars

\* notionals of the fills: 0.001, 0.003
StoreAmounts == {1000 * Micro, 3000 * Micro}

FaultyStoreNext ==
    \/ \E a \in Assets, action \in Actions, price \in FillPrices,
          amount \in StoreAmounts :
           Fill(a, action, price, amount)
    \/ \E a \in Assets, action \in Actions, price \in FillPrices,
          amount \in StoreAmounts, step \in 1..2 :
           FailingFill(a, action, price, amount, step)

SpecFaultyStore == LedgerInit /\ [][FaultyStoreNext]_vars

LastFailed == last.op = "update_after_trade_failed"

\* C29: a call of update_after_trade in which a write fails leaves the
\* positions table as it was before the call, and the table never holds a
\* row with size 0 and average price 0.
C29_ApplyFillAtomic ==
    /\ LastFailed => positions = last.pre
    /\ \A r \in positions : ~(r.size_usdc = 0 /\ r.average_price = 0)

\* the same for the calls that make one write
C29_SingleWriteAtomic ==
    (LastFailed
     /\ PersistenceSteps(last.pre, last.asset_id, last.action,
                         last.amount_usdc) = 1)
        => positions = last.pre

C29_WitnessZeroRow ==
    /\ LastFailed
    /\ last.action = "SELL"
    /\ last.step = 2
    /\ \E r \in positions :
           /\ r.asset_id = last.asset_id
           /\ r.size_usdc = 0
           /\ r.average_price = 0
           /\ r.realized_pnl # 0

C29_WitnessRolledBack ==
    /\ LastFailed
    /\ last.action = "SELL"
    /\ last.step = 1
    /\ positions = last.pre
    /\ ~NoPosition(positions, last.asset_id)

---------------------------------------------------------------------------
(* The Trade records of an executed order, checked under SpecHandler *)

OrderExecuted == LastEvent /\ last.outcome = "executed"

\* the rows the last event has appended
Appended == SubSeq(trades, Len(last.pre_trades) + 1, Len(trades))

IsOrderRow(row) ==
    /\ row.asset_id = last.asset_id
    /\ row.action = last.action
    /\ row.price = last.exec_price
    /\ row.amount_usdc = Round6(last.amount_usdc)

\* C30: an order that passes the risk gate appends exactly one Trade
\* record, with the fill price and the notional, and changes no record
\* that was there.
C30_OneTradePerOrder ==
    OrderExecuted =>
        /\ Len(trades) = Len(last.pre_trades) + 1
        /\ SubSeq(trades, 1, Len(last.pre_trades)) = last.pre_trades
        /\ IsOrderRow(trades[Len(trades)])

\* an executed order appends its record, and a second one with the
\* realized P&L when there is one; the records that were there stay
C30_OneOrTwoTrades ==
    OrderExecuted =>
        /\ Len(Appended) \in {1, 2}
        /\ SubSeq(trades, 1, Len(last.pre_trades)) = last.pre_trades
        /\ IsOrderRow(Appended[1]) /\ ~Appended[1].has_pnl
        /\ Len(Appended) = 2 =>
               /\ last.action = "SELL"
               /\ IsOrderRow(Appended[2])
               /\ Appended[2].has_pnl

C30_WitnessTwoRows ==
    /\ OrderExecuted
    /\ last.action = "SELL"
    /\ Len(Appended) = 2
    /\ Appended[2].realized_pnl # 0

C30_WitnessOneRow ==
    /\ OrderExecuted
    /\ last.action = "SELL"
    /\ Len(Appended) = 1
    /\ NoPosition(last.pre, last.asset_id)

---------------------------------------------------------------------------
(* The rolling history buffer of BacktestEngine.run *)

\* tick prices that tell the ticks apart: 0.00004, 0.00005, 0.00006
HistoryPrices == {40 * Micro, 50 * Micro, 60 * Micro}

\* the strategy's answer does not touch the buffers: it holds or raises
HistorySignals ==
    {HoldSignal, [kind |-> "raises", action |-> "HOLD", amount |-> 0]}

HistoryNext ==
    \/ \E a \in Assets \cup {NoAsset}, price \in HistoryPrices \cup {NoPrice},
          sig \in HistorySignals :
           RecordTick(a, price, sig)
    \/ FirstReturn

SpecHistory == LedgerInit /\ [][HistoryNext]_vars

\* the points of asset a among the first i ticks of the list, oldest
\* first: the ticks the loop does not skip
PointsOf(a, i) ==
    LET own == SelectSeq(SubSeq(tape, 1, i),
                         LAMBDA e : e.asset_id = a
                                    /\ ~Skipped(e.asset_id, e.price))
    IN  [k \in 1..Len(own) |-> [price |-> Float(own[k].price)]]

\* the n most recent entries of a sequence
MostRecent(s, n) ==
    IF Len(s) <= n THEN s ELSE SubSeq(s, Len(s) - n + 1, Len(s))

\* C31: the history the strategy is called with on a tick of an asset is
\* the sequence of that asset's ticks so far, oldest first, cut to the
\* most recent HistoryMaxLen of them; its last element is the tick's own
\* price, and no tick of another asset is in it or has evicted an entry
C31_RollingHistory ==
    \A i \in DOMAIN tape :
        tape[i].data # NoResult =>
            LET h == tape[i].data.history
            IN  /\ h = MostRecent(PointsOf(tape[i].asset_id, i),
                                  HistoryMaxLen)
                /\ Len(h) \in 1..HistoryMaxLen
                /\ h[Len(h)].price = Float(tape[i].price)

\* a tick of an asset arrives when the asset's buffer is full: the oldest
\* point has left
C31_Witness ==
    \E i \in DOMAIN tape :
        /\ tape[i].data # NoResult
        /\ Len(PointsOf(tape[i].asset_id, i)) > HistoryMaxLen
        /\ tape[i].data.history[1].price
               # PointsOf(tape[i].asset_id, i)[1].price

---------------------------------------------------------------------------
(* PerformanceAnalyzer: the maximum drawdown of an equity curve *)

\* equities are counted in halves here: 1.0 is two units
EquityOne == 2

\* points of a curve
MaxCurve == 3

\* equities of the points: -1.0 to 2.0 in halves
Equities == -2..4

\* the curve of the analyzer's test: 10000, 12000, 9000, 10000
KnownCurve ==
    <<10000 * EquityOne, 12000 * EquityOne, 9000 * EquityOne,
      10000 * EquityOne>>

\* the equity_curve lists handed to analyze
Curves ==
    UNION {[1..n -> Equities] : n \in 0..MaxCurve} \cup {KnownCurve}

\* every point carries the largest equity of the list
GlobalMaximum(eq) ==
    [i \in DOMAIN eq |->
        CHOOSE m \in {eq[j] : j \in DOMAIN eq} :
            \A j \in DOMAIN eq : eq[j] <= m]

\* np.maximum.accumulate(equities)
RECURSIVE MaximumAccumulate(_)
MaximumAccumulate(eq) ==
    IF eq = <<>> THEN <<>>
    ELSE LET front == MaximumAccumulate(SubSeq(eq, 1, Len(eq) - 1))
             e == eq[Len(eq)]
         IN  IF front = <<>> \/ front[Len(front)] < e
             THEN Append(front, e)
             ELSE Append(front, front[Len(front)])

\* np.where(running_max > 0, running_max, 1.0)
SafeMax(running_max) ==
    [i \in DOMAIN running_max |->
        IF running_max[i] > 0 THEN running_max[i] ELSE EquityOne]

\* (running_max - equities) / safe_max * 100, in percent
Drawdowns(eq) ==
    LET running_max == MaximumAccumulate(eq)
        safe_max == SafeMax(running_max)
    IN  [i \in DOMAIN eq |->
            Norm(Rat((running_max[i] - eq[i]) * 100, safe_max[i]))]

RatLeq(x, y) == x.n * y.d <= y.n * x.d

\* np.max
RECURSIVE NpMax(_)
NpMax(s) ==
    IF Len(s) = 1 THEN s[1]
    ELSE LET m == NpMax(SubSeq(s, 1, Len(s) - 1))
         IN  IF RatLeq(s[Len(s)], m) THEN m ELSE s[Len(s)]

\* PerformanceAnalyzer._calc_max_drawdown
CalcMaxDrawdown(equity_curve_) ==
    IF equity_curve_ = <<>> THEN Rat(0, 1)
    ELSE NpMax(Drawdowns(equity_curve_))

\* round(x, 4) of a percentage, in units of 0.0001
Round4Q(q) ==
    LET num == q.n * 10000
        k == num \div q.d
        r == num - k * q.d
    IN  IF 2 * r < q.d THEN k
        ELSE IF 2 * r > q.d THEN k + 1
        ELSE IF k % 2 = 0 THEN k
        ELSE k + 1

\* analyze: the drawdown of the result's equity curve and the field of the
\* report, which is rounded to 4 decimals
Analyze ==
    /\ first.returned
    /\ last.op # "analyze"
    /\ LET dd == CalcMaxDrawdown(first.equity_curve)
       IN  last' = [op |-> "analyze", max_drawdown |-> dd,
                    max_drawdown_pct |-> Round4Q(dd)]
    /\ UNCHANGED <<positions, ghost, nfills, trades, now, halted, halted_at,
                   cb_enabled>>
    /\ UNCHANGED btvars

\* the analyzer is handed the result of a run that has returned
AnalyzerInit ==
    /\ positions = {}
    /\ ghost = [a \in Assets |-> Fresh]
    /\ nfills = 0
    /\ last = NoCall
    /\ trades = <<>>
    /\ price_history = <<>>
    /\ inbox = <<>>
    /\ tasks = <<>>
    /\ calls = <<>>
    /\ AlertStart
    /\ WsStart
    /\ max_total_position_usdc = MaxTotalPositionUsdc
    /\ now = 0
    /\ halted = FALSE
    /\ halted_at = NoneAt
    /\ cb_enabled = TRUE
    /\ run_no = 1
    /\ tape = <<>>
    /\ initial_capital = InitialCapital
    /\ capital = InitialCapital
    /\ history_buffers = EmptyDict
    /\ bt_positions = EmptyDict
    /\ bt_trades = <<>>
    /\ equity_curve = <<>>
    /\ last_prices = EmptyDict
    /\ nticks = 0
    /\ nprocessed = 0
    /\ bt_state = "returned"
    /\ \E curve \in Curves :
           first = [returned |-> TRUE, equity_curve |-> curve]

AnalyzerNext == Analyze

SpecAnalyzer == AnalyzerInit /\ [][AnalyzerNext]_vars

Analyzed == last.op = "analyze"

\* the largest equity among the first i points
RunningMax(eq, i) ==
    CHOOSE m \in {eq[j] : j \in 1..i} : \A j \in 1..i : eq[j] <= m

\* (runningMax[i] - equity[i]) / d[i] * 100, d[i] being runningMax[i] when
\* it is > 0 and 1.0 otherwise
DrawdownAt(eq, i) ==
    Rat((RunningMax(eq, i) - eq[i]) * 100,
        IF RunningMax(eq, i) > 0 THEN RunningMax(eq, i) ELSE EquityOne)

NonDecreasing(eq) == \A i \in 1..(Len(eq) - 1) : eq[i] <= eq[i + 1]

\* C32: the maximum drawdown of a non-empty curve is the largest of the
\* drawdowns of its points, each measured from the running maximum with
\* the divisor 1.0 where the running maximum is not positive; it is 0 for
\* an empty and for a non-decreasing curve, never negative, at most 100
\* when every equity is positive, and 25 for 10000, 12000, 9000, 10000
C32_MaxDrawdown ==
    Analyzed =>
        LET eq == first.equity_curve
            dd == last.max_drawdown
        IN  /\ dd.d > 0
            /\ eq # <<>> =>
                   /\ \E i \in DOMAIN eq : RatEq(dd, DrawdownAt(eq, i))
                   /\ \A i \in DOMAIN eq : RatLeq(DrawdownAt(eq, i), dd)
            /\ (eq = <<>> \/ NonDecreasing(eq)) => dd.n = 0
            /\ dd.n >= 0
            /\ (\A i \in DOMAIN eq : eq[i] > 0) => RatLeq(dd, Rat(100, 1))
            /\ eq = KnownCurve => RatEq(dd, Rat(25, 1))

\* a curve of full length that falls below a positive first point and
\* then rises again has been analyzed
C32_Witness ==
    /\ Analyzed
    /\ Len(first.equity_curve) = MaxCurve
    /\ first.equity_curve[1] > first.equity_curve[2]
    /\ first.equity_curve[2] < first.equity_curve[3]
    /\ first.equity_curve[1] > 0
    /\ last.max_drawdown.n > 0

---------------------------------------------------------------------------
(* AlertEngine: rules, cooldown and firing *)

\* alerts.yaml: a rule for every market that fires below 0.00005 and rests
\* 2 minutes, and a rule for market m1 that fires above 0.00005 when all of
\* its conditions hold and rests 1 minute
AlertRules ==
    <<[name |-> "low", market_id |-> "*", match_mode |-> "match_any",
       cooldown_minutes |-> 2,
       conditions |-> <<[type |-> "price_below", threshold |-> 50 * Micro]>>],
      [name |-> "high", market_id |-> "m1", match_mode |-> "match_all",
       cooldown_minutes |-> 1,
       conditions |-> <<[type |-> "price_above", threshold |-> 40 * Micro],
                        [type |-> "price_above", threshold |-> 50 * Micro]>>]>>

\* the markets and prices of the price events
AlertMarkets == {"m1", "m2"}
AlertPrices == {40 * Micro, 60 * Micro}

\* DatabaseManager.get_last_alert_time: the latest triggered_at of the
\* rows of the name, None without one
GetLastAlertTime(log, name) ==
    LET times == {log[i].triggered_at :
                      i \in {k \in DOMAIN log : log[k].alert_name = name}}
    IN  IF times = {} THEN NoneAt
        ELSE CHOOSE t \in times : \A u \in times : u <= t

\* a rule that never rests
IsInCooldownNever(log, name, cooldown_minutes, t) == FALSE

\* AlertEngine._is_in_cooldown
IsInCooldown(log, name, cooldown_minutes, t) ==
    LET last_time == GetLastAlertTime(log, name)
    IN  IF last_time = NoneAt THEN FALSE
        ELSE t < last_time + cooldown_minutes

\* ConditionChecker.check_price_below, check_price_above
Matched(cond, price) ==
    IF cond.type = "price_below" THEN price < cond.threshold
    ELSE IF cond.type = "price_above" THEN price > cond.threshold
    ELSE FALSE

\* lines 73-126: the results of the conditions, the verdict of the match
\* mode, and the type of the last condition that matched
ShouldTrigger(alert, price) ==
    LET results == [i \in DOMAIN alert.conditions |->
                        Matched(alert.conditions[i], price)]
        any == \E i \in DOMAIN results : results[i]
        all == \A i \in DOMAIN results : results[i]
    IN  IF alert.match_mode = "match_all" THEN all /\ any ELSE any

TriggeredCondition(alert, price) ==
    LET hits == {i \in DOMAIN alert.conditions :
                     Matched(alert.conditions[i], price)}
    IN  alert.conditions[CHOOSE i \in hits : \A j \in hits : j <= i].type

\* _evaluate_alert with _trigger_alert: the row is saved and then the
\* notification is sent with the row's id; when save_alert_log raises,
\* nothing is sent and check_alerts goes on with the next rule
EvaluateAlert(st, alert, a, price, t, db_ok) ==
    IF alert.conditions = <<>> THEN st
    ELSE IF IsInCooldown(st.log, alert.name, alert.cooldown_minutes, t)
    THEN st
    ELSE IF ~ShouldTrigger(alert, price) THEN st
    ELSE IF ~db_ok THEN st
    ELSE [log |-> Append(st.log,
                         [alert_name |-> alert.name, asset_id |-> a,
                          condition_type |->
                              TriggeredCondition(alert, price),
                          current_value |-> price, triggered_at |-> t]),
          sent |-> Append(st.sent,
                          [alert_log_id |-> Len(st.log) + 1,
                           condition |-> TriggeredCondition(alert, price),
                           at |-> t])]

\* the loop of check_alerts over the rules from rule i on
RECURSIVE EvaluateFrom(_, _, _, _, _, _, _)
EvaluateFrom(st, i, a, market, price, t, db_ok) ==
    IF i > Len(AlertRules) THEN st
    ELSE LET alert == AlertRules[i]
         IN  IF alert.market_id # "*" /\ alert.market_id # market
             THEN EvaluateFrom(st, i + 1, a, market, price, t, db_ok)
             ELSE EvaluateFrom(EvaluateAlert(st, alert, a, price, t, db_ok),
                               i + 1, a, market, price, t, db_ok)

\* AlertEngine.check_alerts on a price event
CheckAlerts(a, market, price, db_ok) ==
    /\ LET st == EvaluateFrom([log |-> alert_log, sent |-> notifications],
                              1, a, market, price, now, db_ok)
       IN  /\ alert_log' = st.log
           /\ notifications' = st.sent
    /\ last' = [op |-> "check_alerts", market |-> market, price |-> price,
                db_ok |-> db_ok, pre_log |-> alert_log,
                pre_sent |-> notifications]
    /\ UNCHANGED <<positions, ghost, nfills, trades, now, halted, halted_at,
                   cb_enabled, capital, bt_positions, bt_trades, equity_curve,
                   last_prices, nticks, nprocessed, bt_state, initial_capital,
                   history_buffers, callervars, price_history, monvars,
                   wsvars,
                   max_total_position_usdc>>

AlertNext ==
    \/ \E market \in AlertMarkets, price \in AlertPrices, db_ok \in BOOLEAN :
           CheckAlerts("a1", market, price, db_ok)
    \/ Tick

SpecAlert == LedgerInit /\ [][AlertNext]_vars

RuleNamed(name) ==
    AlertRules[CHOOSE i \in DOMAIN AlertRules : AlertRules[i].name = name]

\* the rule's market matches, its conditions hold on the price, and it is
\* not resting at the time of the event
RuleDue(alert, market, price, log, t) ==
    /\ alert.market_id \in {"*", market}
    /\ ShouldTrigger(alert, price)
    /\ \A i \in DOMAIN log :
           log[i].alert_name = alert.name
               => t >= log[i].triggered_at + alert.cooldown_minutes

\* C33: two firings of a rule are at least its cooldown_minutes apart,
\* whatever the price events in between; every notification belongs to
\* the row of a firing and every row has at most one; and a rule whose
\* conditions hold on an event after its cooldown has elapsed fires on it
C33_AlertCooldown ==
    /\ \A i, j \in DOMAIN alert_log :
           (i < j /\ alert_log[i].alert_name = alert_log[j].alert_name)
               => alert_log[j].triggered_at
                      >= alert_log[i].triggered_at
                         + RuleNamed(alert_log[i].alert_name).cooldown_minutes
    /\ \A k \in DOMAIN notifications :
           /\ notifications[k].alert_log_id \in DOMAIN alert_log
           /\ alert_log[notifications[k].alert_log_id].triggered_at
                  = notifications[k].at
           /\ \A m \in DOMAIN notifications :
                  notifications[m].alert_log_id
                      = notifications[k].alert_log_id => m = k
    /\ last.op = "check_alerts" =>
           \A r \in DOMAIN AlertRules :
               LET alert == AlertRules[r]
                   fired == \E i \in (Len(last.pre_log) + 1)..Len(alert_log) :
                                alert_log[i].alert_name = alert.name
               IN  /\ fired => RuleDue(alert, last.market, last.price,
                                   last.pre_log, now)
                   /\ (last.db_ok /\ RuleDue(alert, last.market, last.price,
                                         last.pre_log, now)) => fired

\* the rule for every market has fired, has been held back on an event
\* on which its conditions held, and has fired again once its cooldown
\* had elapsed
C33_Witness ==
    /\ last.op = "check_alerts"
    /\ Len(alert_log) = Len(last.pre_log) + 1
    /\ alert_log[Len(alert_log)].alert_name = "low"
    /\ \E i \in DOMAIN last.pre_log :
           /\ last.pre_log[i].alert_name = "low"
           /\ now = last.pre_log[i].triggered_at
                        + RuleNamed("low").cooldown_minutes

---------------------------------------------------------------------------
(* The exposure cap in the live path *)

\* max_total_position_usdc of risk.yaml: 0.003, and 0.0030006, which has
\* a seventh decimal
ExposureCaps == {MaxTotalPositionUsdc, MaxTotalPositionUsdc + 6}

\* notionals of the orders: 0.002, 0.0009996, 0.0010006
ExposureAmounts == {2000 * Micro, 1000 * Micro - 4, 1000 * Micro + 6}

ExposureOrders ==
    {Signal(action, amount) :
        action \in {"BUY", "SELL"}, amount \in ExposureAmounts}

ExposureInit ==
    /\ positions = {}
    /\ ghost = [a \in Assets |-> Fresh]
    /\ nfills = 0
    /\ last = NoCall
    /\ trades = <<>>
    /\ price_history = <<>>
    /\ inbox = <<>>
    /\ tasks = <<>>
    /\ calls = <<>>
    /\ AlertStart
    /\ WsStart
    /\ max_total_position_usdc \in ExposureCaps
    /\ now = 0
    /\ halted = FALSE
    /\ halted_at = NoneAt
    /\ cb_enabled = TRUE
    /\ RunStart

ExposureNext ==
    \/ Tick
    \/ \E a \in Assets, price \in TickPrices, sig \in ExposureOrders :
           HandleEvent(a, price, NoQuote, NoQuote, sig)

SpecExposure == ExposureInit /\ [][ExposureNext]_vars

\* the smallest amount of 6 decimals that is not below x
Ceil6(x) == ((x + Micro - 1) \div Micro) * Micro

\* C34 as stated: the sum of the sizes of the open positions is never
\* above max_total_exposure
C34_ExposureCap == GetTotalPositionUsdc(positions) <= max_total_position_usdc

\* C34: the sum of the sizes of the open positions is never above
\* max_total_exposure rounded up to 6 decimals, which is max_total_exposure
\* itself when it has no more than 6 decimals
C34_ExposureCapRounded ==
    /\ GetTotalPositionUsdc(positions) <= Ceil6(max_total_position_usdc)
    /\ max_total_position_usdc = Round6(max_total_position_usdc)
           => GetTotalPositionUsdc(positions) <= max_total_position_usdc

\* a BUY of 0.0009996 has passed the risk gate with 0.002 on the books and
\* has taken the exposure to the cap of 0.003 by the rounding of its size
C34_Witness ==
    /\ LastEvent
    /\ last.action = "BUY"
    /\ last.outcome = "executed"
    /\ last.amount_usdc = 1000 * Micro - 4
    /\ GetTotalPositionUsdc(last.pre) = 2000 * Micro
    /\ GetTotalPositionUsdc(positions) = max_total_position_usdc

---------------------------------------------------------------------------
(* The Trade records of a day, checked under SpecHandler *)

\* the Trade records created in the UTC day that starts at day_start
TradesOfDay(day_start) ==
    SelectSeq(trades, LAMBDA r : TodayStart(r.created_at) = day_start)

\* C35: the Trade records created in one UTC day are never more than
\* max_daily_trades
C35_DailyTradeCount ==
    \A t \in 0..MaxTime : Len(TradesOfDay(TodayStart(t))) <= MaxDailyTrades

---------------------------------------------------------------------------
(* The capital of a run against its trades, checked under SpecClose *)

\* the realized P&L of the SELL trades of a list
RECURSIVE RealizedPnl(_)
RealizedPnl(tr) ==
    IF tr = <<>> THEN 0
    ELSE (IF Head(tr).action = "SELL" THEN Head(tr).realized_pnl ELSE 0)
         + RealizedPnl(Tail(tr))

\* what the trades of a list have taken from the capital and given to it
RECURSIVE CashFlow(_)
CashFlow(tr) ==
    IF tr = <<>> THEN 0
    ELSE (IF Head(tr).action = "BUY" THEN -Head(tr).amount_usdc
          ELSE Head(tr).amount_usdc + Head(tr).realized_pnl)
         + CashFlow(Tail(tr))

RECURSIVE OpenSizes(_, _)
OpenSizes(btpos, S) ==
    IF S = {} THEN 0
    ELSE LET a == CHOOSE x \in S : TRUE
         IN  btpos[a].size_usdc + OpenSizes(btpos, S \ {a})

SellTrades(tr) == SelectSeq(tr, LAMBDA t : t.action = "SELL")

\* the notional that has left the books without reaching the capital
WrittenOff ==
    initial_capital + RealizedPnl(bt_trades) - capital
        - OpenSizes(bt_positions, DOMAIN bt_positions)

\* C36 as stated: at every step the capital and the sizes of the open
\* positions add up to the initial capital and the realized P&L so far,
\* and the capital run returns is the initial capital plus the realized
\* P&L of the SELL trades
C36_CapitalConservation ==
    /\ WrittenOff = 0
    /\ bt_state = "returned"
           => capital = initial_capital + RealizedPnl(bt_trades)

\* C36: at every step and when run returns, the capital is the initial
\* capital less the notionals of the BUY trades plus the notional and the
\* realized P&L of every SELL trade; a SELL that leaves 0.001 or less
\* closes the position and the rest is written off, so the capital and
\* the open sizes fall short of the initial capital plus the realized P&L
\* by at most 0.001 for every SELL trade, up to the rounding of the sizes
\* and of the sold notionals to 6 decimals, which is below 0.000001 for
\* every trade
C36_CashFlow ==
    /\ capital = initial_capital + CashFlow(bt_trades)
    /\ WrittenOff >= -(Len(bt_trades) * Micro)
    /\ WrittenOff <= Len(SellTrades(bt_trades)) * CloseThreshold
                         + Len(bt_trades) * Micro
    /\ bt_state = "returned"
           => /\ OpenSizes(bt_positions, DOMAIN bt_positions) = 0
              /\ capital = initial_capital + RealizedPnl(bt_trades)
                               - WrittenOff

\* a SELL at a price above the average has left exactly 0.001 of a
\* position, which is closed without the rest reaching the capital
C36_Witness ==
    /\ LastTick
    /\ last.action = "SELL"
    /\ last.result = "ok"
    /\ bt_trades[Len(bt_trades)].realized_pnl > 0
    /\ WrittenOff = CloseThreshold
    /\ OpenSizes(bt_positions, DOMAIN bt_positions) = 0

---------------------------------------------------------------------------
(* The SELL records against the ledger *)

\* the size of the asset's position before the last event, 0 without one
SizeBefore ==
    IF NoPosition(last.pre, last.asset_id) THEN 0
    ELSE GetPosition(last.pre, last.asset_id).size_usdc

\* C37: a SELL Trade record of the live path carries the notional that
\* the fill has taken from the asset's position, the notional asked for
\* capped at the size of the position, and none is written for an asset
\* without an open position (checked under SpecHandler)
C37_SellRecordsMatch ==
    (LastEvent /\ last.action = "SELL") =>
        /\ SizeBefore <= 0 => trades = last.pre_trades
        /\ \A i \in DOMAIN Appended :
               Appended[i].amount_usdc
                   = Round6(Min(last.amount_usdc, SizeBefore))

\* the in-memory SELL records of the backtest carry the notional sold, and
\* a SELL of an asset that is not held appends none (checked under
\* SpecRun)
C37_BacktestSellRecords ==
    (LastTick /\ last.kind = "signal" /\ last.action = "SELL"
     /\ last.result # "skipped") =>
        LET held == /\ Held(last.pre_positions, last.asset_id)
                    /\ last.pre_positions[last.asset_id].size_usdc > 0
        IN  /\ ~held => bt_trades = last.pre_trades
            /\ held =>
                   /\ Len(bt_trades) = Len(last.pre_trades) + 1
                   /\ bt_trades[Len(bt_trades)].amount_usdc
                          = Round6(Min(last.amount_usdc,
                                last.pre_positions[last.asset_id].size_usdc))

---------------------------------------------------------------------------
(* The slippage configuration of the two constructors *)

\* cfg.get("use_book_price", True) and cfg.get("slippage_bps", 50) of
\* OrderExecutor.__init__
DefaultUseBookPrice == TRUE
DefaultSlippageBps == 50

\* config.get("use_book_price", True) and config.get("slippage_bps", 0) of
\* BacktestEngine.__init__
BtDefaultUseBookPrice == TRUE
BtDefaultSlippageBps == 0

\* slippage_config: None, a dict without keys, or a dict with one key or
\* with both
NoConfig == [is_none |-> TRUE, dict |-> EmptyDict]
Config(d) == [is_none |-> FALSE, dict |-> d]
SlippageConfigs ==
    {NoConfig, Config(EmptyDict),
     Config([use_book_price |-> FALSE]),
     Config([slippage_bps |-> 100]),
     Config([use_book_price |-> FALSE, slippage_bps |-> 100])}

\* slippage_config or {}
OrEmpty(cfg) == IF cfg.is_none THEN EmptyDict ELSE cfg.dict

\* dict.get(key, default)
Get(cfg, key, default) == IF key \in DOMAIN cfg THEN cfg[key] ELSE default

\* OrderExecutor.__init__: use_book_price and slippage_bps
ExecutorConfig(slippage_config) ==
    [use_book_price |-> Get(OrEmpty(slippage_config), "use_book_price",
                            DefaultUseBookPrice),
     slippage_bps |-> Get(OrEmpty(slippage_config), "slippage_bps",
                          DefaultSlippageBps)]

\* BacktestEngine.__init__: _use_book_price and _slippage_bps
EngineConfig(slippage_config) ==
    [use_book_price |-> Get(OrEmpty(slippage_config), "use_book_price",
                            BtDefaultUseBookPrice),
     slippage_bps |-> Get(OrEmpty(slippage_config), "slippage_bps",
                          BtDefaultSlippageBps)]

\* an executor and an engine built with the same slippage_config price the
\* same order
ConfiguredPrice(slippage_config, action, price, best_bid, best_ask) ==
    /\ LET live == ExecutorConfig(slippage_config)
           bt == EngineConfig(slippage_config)
       IN  last' = [op |-> "configured_price",
                    slippage_config |-> slippage_config,
                    executor |-> live, engine |-> bt,
                    action |-> action, price |-> price,
                    best_bid |-> best_bid, best_ask |-> best_ask,
                    live |-> CalcExecutionPrice(live.use_book_price,
                                                live.slippage_bps, action,
                                                price, best_bid, best_ask),
                    backtest |-> BtCalcExecutionPrice(bt.use_book_price,
                                                      bt.slippage_bps, action,
                                                      price, best_bid,
                                                      best_ask)]
    /\ UNCHANGED <<positions, ghost, nfills, trades, now, halted, halted_at,
                   cb_enabled>>
    /\ UNCHANGED btvars

\* prices and quotes: 0.0005, 0.00059, 0.00061
DefaultsPrices == {500 * Micro, 590 * Micro, 610 * Micro}

DefaultsNext ==
    \E slippage_config \in SlippageConfigs, action \in Actions,
       price \in DefaultsPrices, best_bid \in DefaultsPrices \cup {NoQuote},
       best_ask \in DefaultsPrices \cup {NoQuote} :
        ConfiguredPrice(slippage_config, action, price, best_bid, best_ask)

SpecDefaults == LedgerInit /\ [][DefaultsNext]_vars

Unconfigured ==
    /\ last.op = "configured_price"
    /\ OrEmpty(last.slippage_config) = EmptyDict

\* C38: without a slippage configuration the executor and the engine have
\* the same use_book_price and the same slippage_bps, and compute the
\* same fill price for every action, price, best_bid and best_ask
C38_DefaultSlippageParity ==
    Unconfigured =>
        /\ last.executor = last.engine
        /\ last.live = last.backtest

\* without a slippage configuration both use the book's quotes, and with
\* the same slippage_bps given to both they compute the same fill price
C38_SameBookDefault ==
    /\ Unconfigured => last.executor.use_book_price
                           = last.engine.use_book_price
    /\ (last.op = "configured_price"
        /\ "slippage_bps" \in DOMAIN OrEmpty(last.slippage_config))
           => /\ last.executor = last.engine
              /\ last.live = last.backtest

---------------------------------------------------------------------------
(* WebSocketClient: connect, subscribe, listen and reconnect *)

\* max_reconnect_attempts, scaled
MaxReconnectAttempts == 2

\* successful connects of a behaviour, and the length of the lists the
\* caller subscribes up to
MaxConnects == 3
MaxSubscribed == 2

\* the asset_ids lists of the caller
AssetLists == {<<"a1">>, <<"a2">>, <<"a1", "a2">>}

InList(s, a) == \E i \in DOMAIN s : s[i] = a

\* list.remove(aid): the first occurrence leaves the list
Remove(s, a) ==
    LET i == CHOOSE k \in DOMAIN s :
                 s[k] = a /\ \A j \in 1..(k - 1) : s[j] # a
    IN  SubSeq(s, 1, i - 1) \o SubSeq(s, i + 1, Len(s))

\* lines 99-101: for aid in asset_ids, remove it when it is in the list
RECURSIVE RemoveAll(_, _)
RemoveAll(s, ids) ==
    IF ids = <<>> THEN s
    ELSE RemoveAll(IF InList(s, Head(ids)) THEN Remove(s, Head(ids)) ELSE s,
                   Tail(ids))

SetOf(s) == {s[i] : i \in DOMAIN s}

WsFrame ==
    UNCHANGED <<positions, ghost, nfills, trades, now, halted, halted_at,
                cb_enabled, capital, bt_positions, bt_trades, equity_curve,
                last_prices, nticks, nprocessed, bt_state, initial_capital,
                history_buffers, callervars, price_history, monvars,
                alertvars, max_total_position_usdc>>

\* connect, called by main: websockets.connect returns a connection or
\* raises
Connect(ok) ==
    /\ websocket = "None"
    /\ nconnects < MaxConnects
    /\ IF ok
       THEN /\ websocket' = "open"
            /\ is_running' = TRUE
            /\ reconnect_count' = 0
            /\ attempts' = 0
            /\ nconnects' = nconnects + 1
       ELSE UNCHANGED <<websocket, is_running, reconnect_count, attempts,
                        nconnects>>
    /\ last' = [op |-> "connect", connected |-> ok]
    /\ UNCHANGED <<subscribed_assets, wanted>>
    /\ WsFrame

\* subscribe_to_market: nothing without a websocket; send raises on a
\* closed connection, and the list is extended after a send that returns
SubscribeToMarket(asset_ids) ==
    /\ Len(subscribed_assets) + Len(asset_ids) <= MaxSubscribed
    /\ IF websocket = "open"
       THEN /\ subscribed_assets' = subscribed_assets \o asset_ids
            /\ wanted' = wanted \cup SetOf(asset_ids)
       ELSE UNCHANGED <<subscribed_assets, wanted>>
    /\ last' = [op |-> "subscribe", sent |-> websocket = "open",
                pre_subscribed |-> subscribed_assets]
    /\ UNCHANGED <<websocket, is_running, reconnect_count, attempts,
                   nconnects>>
    /\ WsFrame

\* unsubscribe_from_market
UnsubscribeFromMarket(asset_ids) ==
    /\ IF websocket = "open"
       THEN /\ subscribed_assets' = RemoveAll(subscribed_assets, asset_ids)
            /\ wanted' = wanted \ SetOf(asset_ids)
       ELSE UNCHANGED <<subscribed_assets, wanted>>
    /\ last' = [op |-> "unsubscribe", sent |-> websocket = "open",
                pre_subscribed |-> subscribed_assets]
    /\ UNCHANGED <<websocket, is_running, reconnect_count, attempts,
                   nconnects>>
    /\ WsFrame

\* the server or the network closes the connection
ConnectionLost ==
    /\ websocket = "open"
    /\ websocket' = "closed"
    /\ last' = [op |-> "connection_lost"]
    /\ UNCHANGED <<is_running, reconnect_count, subscribed_assets, attempts,
                   wanted, nconnects>>
    /\ WsFrame

\* the retry goes on whatever the count
ReconnectUnbounded(ok) ==
    /\ reconnect_count' = IF ok THEN 0 ELSE reconnect_count + 1
    /\ attempts' = IF ok THEN 0 ELSE attempts + 1
    /\ websocket' = IF ok THEN "open" ELSE websocket
    /\ nconnects' = IF ok THEN nconnects + 1 ELSE nconnects
    /\ subscribed_assets' =
           IF ok THEN subscribed_assets \o subscribed_assets
           ELSE subscribed_assets
    /\ last' = [op |-> "reconnect", gave_up |-> FALSE, connected |-> ok,
                pre_subscribed |-> subscribed_assets,
                resent |-> IF ok THEN subscribed_assets ELSE <<>>]
    /\ UNCHANGED <<is_running, wanted>>

\* _reconnect: it gives up at max_reconnect_attempts; otherwise it counts
\* the attempt and connects, and after a connect that succeeds it hands
\* _subscribed_assets itself to subscribe_to_market, which sends it and
\* extends the list by it
Reconnect(ok) ==
    IF reconnect_count >= MaxReconnectAttempts
    THEN /\ is_running' = FALSE
         /\ last' = [op |-> "reconnect", gave_up |-> TRUE,
                     connected |-> FALSE,
                     pre_subscribed |-> subscribed_assets, resent |-> <<>>]
         /\ UNCHANGED <<websocket, reconnect_count, subscribed_assets,
                        attempts, wanted, nconnects>>
    ELSE /\ reconnect_count' = IF ok THEN 0 ELSE reconnect_count + 1
         /\ attempts' = IF ok THEN 0 ELSE attempts + 1
         /\ websocket' = IF ok THEN "open" ELSE websocket
         /\ is_running' = IF ok THEN TRUE ELSE is_running
         /\ nconnects' = IF ok THEN nconnects + 1 ELSE nconnects
         /\ subscribed_assets' =
                IF ok THEN subscribed_assets \o subscribed_assets
                ELSE subscribed_assets
         /\ last' = [op |-> "reconnect", gave_up |-> FALSE,
                     connected |-> ok,
                     pre_subscribed |-> subscribed_assets,
                     resent |-> IF ok THEN subscribed_assets ELSE <<>>]
         /\ UNCHANGED wanted

\* one turn of the loop of listen: a message is received and handed to
\* on_message, or recv raises ConnectionClosed and _reconnect is called
Listen ==
    /\ is_running
    /\ IF websocket = "open"
       THEN /\ last' = [op |-> "recv"]
            /\ UNCHANGED wsvars
       ELSE \E ok \in BOOLEAN :
                /\ ok => nconnects < MaxConnects
                /\ Reconnect(ok)
    /\ WsFrame

\* close
Close ==
    /\ websocket # "None"
    /\ is_running' = FALSE
    /\ websocket' = "closed"
    /\ last' = [op |-> "close"]
    /\ UNCHANGED <<reconnect_count, subscribed_assets, attempts, wanted,
                   nconnects>>
    /\ WsFrame

WsNext ==
    \/ \E ok \in BOOLEAN : Connect(ok)
    \/ \E asset_ids \in AssetLists : SubscribeToMarket(asset_ids)
    \/ \E asset_ids \in AssetLists : UnsubscribeFromMarket(asset_ids)
    \/ ConnectionLost
    \/ Listen
    \/ Close

SpecWs == LedgerInit /\ [][WsNext]_vars

\* the loop of listen keeps running while is_running holds
SpecWsLive == SpecWs /\ WF_vars(Listen)


\* C39: the reconnect attempts made since the last successful connect never
\* exceed max_reconnect_attempts, every successful connect leaves
\* reconnect_count at 0, and a listen loop whose connection is down
\* eventually is connected again or has set is_running to false.
C39_BoundedReconnect ==
    /\ [](/\ attempts <= MaxReconnectAttempts
          /\ attempts = reconnect_count
          /\ (last.op \in {"connect", "reconnect"} /\ last.connected)
                 => reconnect_count = 0)
    /\ (is_running /\ websocket # "open")
           ~> (~is_running \/ websocket = "open")

\* the loop has given up after max_reconnect_attempts failed attempts
C39_Witness ==
    /\ last.op = "reconnect"
    /\ last.gave_up
    /\ ~is_running
    /\ attempts = MaxReconnectAttempts
    /\ nconnects > 0


Count(s, a) == Cardinality({i \in DOMAIN s : s[i] = a})

\* C40: the list of subscribed assets holds exactly the assets the caller
\* subscribed and did not unsubscribe, each once, and a reconnect leaves
\* the list as it was.
C40_SubscriptionSet ==
    /\ \A a \in {"a1", "a2"} :
           Count(subscribed_assets, a) = IF a \in wanted THEN 1 ELSE 0
    /\ last.op = "reconnect" => subscribed_assets = last.pre_subscribed

\* what the list does keep: every asset subscribed and not unsubscribed is
\* in it, and a reconnect that succeeds re-sends the list as it was before
C40_WantedKept ==
    /\ wanted \subseteq SetOf(subscribed_assets)
    /\ (last.op = "reconnect" /\ last.connected)
           => /\ last.resent = last.pre_subscribed
              /\ subscribed_assets = last.pre_subscribed \o last.pre_subscribed

\* a reconnect has doubled a list of one asset subscribed once
C40_Doubled ==
    /\ last.op = "reconnect"
    /\ last.connected
    /\ last.pre_subscribed = <<"a1">>
    /\ subscribed_assets = <<"a1", "a1">>
    /\ wanted = {"a1"}

===========================================================================
